---- MODULE Spec2Model ----
(***************************************************************************)
(* A model of mcp-veo2: the VeoClient gateway (generation, polling, the    *)
(* fan-out over the generated videos, the on-disk store of binaries and    *)
(* JSON sidecars), and the MCP tools wrapped around it.                    *)
(*                                                                         *)
(* Conventions.                                                            *)
(*  - A string the code builds from parts is a sequence of its parts; the  *)
(*    empty string is << >>.  A string that is compared character by       *)
(*    character (a boolean-ish tool parameter) is a sequence of one-       *)
(*    character strings.                                                   *)
(*  - An optional value (a TypeScript `x?: T`) is << >> when undefined and *)
(*    << v >> when set.                                                    *)
(*  - A path is << directory, file name, extension >>; the file system is  *)
(*    a function from the paths that exist to their contents.              *)
(*  - JSON.stringify / JSON.parse of a metadata object are kept as the     *)
(*    object itself, wrapped as a "json" file; a file that does not parse  *)
(*    is a "garbage" file.                                                 *)
(*  - Spec follows one generating tool call from its start to its end,     *)
(*    one step per await point of the code, and then the reading tools     *)
(*    called on what it stored.  SpecStore and SpecImages are the video    *)
(*    store and the image store under any sequence of saves, reads,        *)
(*    listings and outside damage, one step per operation.  SpecCoerce is  *)
(*    the path of the boolean-ish arguments of a call.                     *)
(*  - SpecCalls is several generation calls whose fan-outs run side by     *)
(*    side.  SpecConfig follows the configuration of a video request from  *)
(*    the caller's arguments to the recorded metadata, SpecValidate the    *)
(*    requests at and around the bounds of the schemas, SpecNormalize one  *)
(*    call of the image normalizer, and SpecResources both stores under    *)
(*    the reads that ask for metadata alone.                               *)
(*  - SpecFair is the tool call of Spec with weak fairness on the steps    *)
(*    of a call in flight.  SpecInterleave runs saves, getVideo and        *)
(*    listVideos side by side, one step per await; SpecImageTool is one    *)
(*    call of an image tool beside the video store; SpecEnhance is the     *)
(*    configuration path for every form of enhancePrompt.  SpecLogger is   *)
(*    the logger and SpecSse the SSE endpoint of main().                   *)
(***************************************************************************)
EXTENDS Integers, Sequences, FiniteSets, TLC

VARIABLES
  files,        \* the file system under STORAGE_DIR: path -> content
  nextUuid,     \* the number of uuidv4() values drawn so far
  tool,         \* the generation tool in flight ("none" when there is none)
  args,         \* its arguments, as the tool function receives them
  options,      \* the boolean options the tool made of its arguments
  img,          \* the image the tool generated, held in memory
  pc,           \* where the gateway call stands
  polls,        \* status re-fetches done by the call
  tasks,        \* the fan-out: one task per generated video
  outcome,      \* what the gateway call gave its caller
  envelope,     \* what the tool call gave its caller
  trace,        \* history of the call: fetches started, paths written
  lastRead,     \* the last read or listing and what it returned
  config,       \* the video configuration of a call, stage by stage
  imageInput,   \* the image reference of a call and what was made of it
  logger,       \* the logger: its level, the last message, the console
  transports    \* the SSE endpoint: the registry, the open connections

vars == << files, nextUuid, tool, args, options, img, pc, polls, tasks, outcome,
           envelope, trace, lastRead, config, imageInput, logger,
           transports >>

----------------------------------------------------------------------------
(* Bounds of the model *)

\* uuids drawn in a run of SpecStore: caps the number of stored artifacts
MaxUuid == 2
\* status re-fetches of one call before the remote service reports done
MaxPolls == 1
\* result descriptors of all the calls in a run of SpecCalls
MaxTasks == 3
----------------------------------------------------------------------------
(* Values *)

\* the payloads a download can deliver: byte sequences of several lengths
Bytes == { << >>, << 255 >>, << 0, 255 >> }

\* the remote references a result descriptor can carry
Uris == { <<"https://remote/video">> }

\* appConfig.GOOGLE_API_KEY
ApiKey == "GOOGLE_API_KEY"

\* appConfig.STORAGE_DIR
StorageDir == "STORAGE_DIR"

None == << >>

\* no configuration has been handed to a tool
NoConfig == [stage |-> "none"]

\* no image reference has been handed to the gateway
NoInput == [stage |-> "none"]
\* no logger and no SSE endpoint in this run
NoLogger == [stage |-> "none"]
NoTransports == [stage |-> "none"]

Some(v) == << v >>

IsSome(o) == Len(o) > 0

\* JavaScript truthiness of a string
NonEmpty(s) == Len(s) > 0

----------------------------------------------------------------------------
(* The file system *)

\* path.resolve(this.storageDir, `${id}${extension}`)
VideoPath(id, ext) == << StorageDir, id, ext >>

BinFile(b) == [kind |-> "bin", bytes |-> b, obj |-> None]

\* the text JSON.stringify(metadata, null, 2) writes
JsonFile(m) == [kind |-> "json", bytes |-> << >>, obj |-> Some(m)]

\* a sidecar whose text JSON.parse rejects
GarbageFile == [kind |-> "garbage", bytes |-> << >>, obj |-> None]

Exists(fs, p) == p \in DOMAIN fs

\* fs.writeFile(p, content): creates or replaces the file
WriteFile(fs, p, content) ==
  [q \in DOMAIN fs \cup {p} |-> IF q = p THEN content ELSE fs[q]]

\* fs.unlink(p), done by someone outside the program
RemoveFile(fs, p) == [q \in DOMAIN fs \ {p} |-> fs[q]]

\* fs.readdir(dir): the names in the directory
ReadDir(fs, dir) == { p \in DOMAIN fs : p[1] = dir }

\* Buffer.toString('base64'): three bytes become four 6-bit digits; 64 is '='
RECURSIVE Base64(_)
Base64(b) ==
  IF Len(b) = 0 THEN << >>
  ELSE IF Len(b) = 1 THEN
    << b[1] \div 4, (b[1] % 4) * 16, 64, 64 >>
  ELSE IF Len(b) = 2 THEN
    << b[1] \div 4, (b[1] % 4) * 16 + b[2] \div 16, (b[2] % 16) * 4, 64 >>
  ELSE
    << b[1] \div 4, (b[1] % 4) * 16 + b[2] \div 16,
       (b[2] % 16) * 4 + b[3] \div 64, b[3] % 64 >>
    \o Base64(SubSeq(b, 4, Len(b)))

----------------------------------------------------------------------------
(* The remote operation handle *)

\* generatedVideo.video?.uri: undefined, or a string
Descriptors == { None } \cup { Some(u) : u \in Uris }

\* !generatedVideo.video?.uri is false
HasUri(d) == IsSome(d) /\ NonEmpty(d[1])

\* operation.response?.generatedVideos: undefined, or a list of at most two
VideoLists ==
  { None } \cup { Some(l) : l \in UNION { [1..n -> Descriptors] : n \in 0..2 } }

Operations == [done : BOOLEAN, videos : VideoLists]

----------------------------------------------------------------------------
(* Metadata and identifiers *)

\* a variant that names a video by its place in the fan-out alone
VideoIdByIndex(uuid, index) == << "video", "_", index >>

\* index === 0 ? uuidv4() : `${uuidv4()}_${index}`
VideoId(uuid, index) ==
  IF index = 0 THEN << uuid >> ELSE << uuid, "_", index >>

\* `${generatedVideo.video.uri}&key=${appConfig.GOOGLE_API_KEY}`
VideoUri(uri) == uri \o << "&key=", ApiKey >>

\* the metadata saveVideoBuffer builds for a downloaded video
SavedMetadata(id, videoBuffer) ==
  [id |-> id, mimeType |-> "video/mp4", size |-> Len(videoBuffer),
   filepath |-> VideoPath(id, ".mp4"), videoUrl |-> None]

\* a variant that records the place a download would have gone to
DeferredMetadataWithPath(id, videoUri) ==
  [id |-> id, mimeType |-> "video/mp4", size |-> 0,
   filepath |-> VideoPath(id, ".mp4"), videoUrl |-> Some(videoUri)]

\* the metadata built for a video that is not downloaded
DeferredMetadata(id, videoUri) ==
  [id |-> id, mimeType |-> "video/mp4", size |-> 0,
   filepath |-> << >>, videoUrl |-> Some(videoUri)]

\* path.resolve(this.storageDir, `${id}.json`)
MetadataPath(id) == VideoPath(id, ".json")

----------------------------------------------------------------------------
(* Boolean-ish tool parameters *)

\* a parameter as the caller sends it: left out, a boolean, or a string
Undefined == [t |-> "undefined", b |-> FALSE, s |-> << >>]

Bool(b) == [t |-> "boolean", b |-> b, s |-> << >>]

Str(s) == [t |-> "string", b |-> FALSE, s |-> s]

\* String.prototype.toLowerCase, one character
LowerChar(c) ==
  CASE c = "T" -> "t"
    [] c = "R" -> "r"
    [] c = "U" -> "u"
    [] c = "E" -> "e"
    [] c = "F" -> "f"
    [] c = "A" -> "a"
    [] c = "G" -> "g"
    [] c = "N" -> "n"
    [] c = "P" -> "p"
    [] OTHER -> c

ToLowerCase(s) == [i \in 1..Len(s) |-> LowerChar(s[i])]

\* s.toLowerCase() === 'true' || s === '1'
StringIsTrue(s) ==
  ToLowerCase(s) = << "t", "r", "u", "e" >> \/ s = << "1" >>

\* a variant that takes a string by its JavaScript truthiness: `x || dflt`
CoerceOrDefaultTruthy(x, dflt) ==
  IF x.t = "string" THEN NonEmpty(x.s)
  ELSE IF x.t = "undefined" THEN dflt
  ELSE x.b

\* typeof x === 'string' ? (...) : x ?? dflt
CoerceOrDefault(x, dflt) ==
  IF x.t = "string" THEN StringIsTrue(x.s)
  ELSE IF x.t = "undefined" THEN dflt
  ELSE x.b

\* typeof x === 'string' ? (...) : x !== false
CoerceNotFalse(x) ==
  IF x.t = "string" THEN StringIsTrue(x.s)
  ELSE ~(x.t = "boolean" /\ x.b = FALSE)

\* JavaScript truthiness of a parameter
Truthy(x) ==
  CASE x.t = "string" -> NonEmpty(x.s)
    [] x.t = "boolean" -> x.b
    [] OTHER -> FALSE

\* z.union([z.boolean(), z.string()]).default(d): d fills in a field left out
ZodDefault(x, d) == IF x.t = "undefined" THEN Bool(d) ELSE x

----------------------------------------------------------------------------
(* The gateway: options, tasks and the state of a call *)

VideoTools == { "generateVideoFromText", "generateVideoFromImage" }

ImageTools == { "generateImage", "generateVideoFromGeneratedImage" }

\* the tools that take boolean-ish parameters
CoercingTools == VideoTools \cup ImageTools \cup { "getImage" }

\* the tools whose only boolean-ish parameter is includeFullData
ImageOnlyTools == { "generateImage", "getImage" }

\* the arguments after the schema the server registers for tool t filled in
\* its defaults
SchemaArgs(t, a) ==
  [enhancePrompt |-> ZodDefault(a.enhancePrompt, FALSE),
   includeFullData |-> ZodDefault(a.includeFullData, t = "getImage"),
   autoDownload |-> ZodDefault(a.autoDownload, TRUE)]

\* the arguments of a call that sets includeFullData and autoDownload
Args(includeFullData, autoDownload) ==
  [enhancePrompt |-> Undefined, includeFullData |-> includeFullData,
   autoDownload |-> autoDownload]

\* the options before any tool has run
NoOptions ==
  [enhancePrompt |-> FALSE, includeFullData |-> FALSE, autoDownload |-> TRUE]

\* the booleans tool t makes of its arguments: generateImage and getImage
\* have includeFullData alone
ToolOptions(t, a) ==
  IF t \in ImageOnlyTools
    THEN [NoOptions EXCEPT
            !.includeFullData = CoerceNotFalse(a.includeFullData)]
    ELSE [enhancePrompt |-> CoerceOrDefault(a.enhancePrompt, FALSE),
          includeFullData |-> CoerceOrDefault(a.includeFullData, FALSE),
          autoDownload |-> CoerceOrDefault(a.autoDownload, TRUE)]

\* options?.autoDownload !== false
GatewayAutoDownload(o) == o.autoDownload # FALSE

\* options?.includeFullData === true
GatewayIncludeFullData(o) == o.includeFullData = TRUE

AutoDownload == GatewayAutoDownload(options)

IncludeFullData == GatewayIncludeFullData(options)

Pending == [st |-> "pending", msg |-> "", meta |-> None, videoData |-> None]

\* the call goes on, at await point p
Running(p) == [pc |-> p, outcome |-> Pending]

\* throw new Error(msg), logged and rethrown by the gateway's catch
Fail(msg) ==
  [pc |-> "done",
   outcome |-> [st |-> "error", msg |-> msg, meta |-> None,
                videoData |-> None]]

\* return result, with the inline data when it was read
Return(m, vd) ==
  [pc |-> "done",
   outcome |-> [st |-> "ok", msg |-> "", meta |-> Some(m), videoData |-> vd]]

NoTasks == << >>

\* a map callback that returned null: the descriptor has no uri
NullTask ==
  [st |-> "fulfilled", id |-> << >>, buf |-> << >>, value |-> None, err |-> ""]

\* a variant without the check of the uri: every descriptor is fetched
StartTaskNoUriCheck(d, index, uuid, autoDownload) ==
  [st |-> "fetching", id |-> VideoId(uuid, index), buf |-> << >>,
   value |-> None, err |-> ""]

\* the map callback up to its first await
StartTask(d, index, uuid, autoDownload) ==
  IF ~HasUri(d) THEN NullTask
  ELSE IF autoDownload THEN
    [st |-> "fetching", id |-> VideoId(uuid, index), buf |-> << >>,
     value |-> None, err |-> ""]
  ELSE
    [st |-> "writingMeta", id |-> VideoId(uuid, index), buf |-> << >>,
     value |-> Some(DeferredMetadata(VideoId(uuid, index), VideoUri(d[1]))),
     err |-> ""]

\* the descriptors among the first n that draw a uuid
UriCount(l, n) == Cardinality({ i \in 1..n : HasUri(l[i]) })

Settled(t) == t.st \in { "fulfilled", "rejected" }

AllSettled(ts) == \A i \in DOMAIN ts : Settled(ts[i])

AllFulfilled(ts) == \A i \in DOMAIN ts : ts[i].st = "fulfilled"

\* a variant that puts the metadata of the last video first
ValidMetadataReversed(ts) ==
  LET NotNull(t) == IsSome(t.value)
      valid == SelectSeq(ts, NotNull)
  IN [i \in 1..Len(valid) |-> valid[Len(valid) + 1 - i].value[1]]

\* metadataArray.filter(metadata => metadata !== null)
ValidMetadata(ts) ==
  LET NotNull(t) == IsSome(t.value)
      valid == SelectSeq(ts, NotNull)
  IN [i \in 1..Len(valid) |-> valid[i].value[1]]

\* the code after `await Promise.all(videoPromises)` resolved
AfterAll(ts, autoDownload, includeFullData) ==
  LET validMetadata == ValidMetadata(ts) IN
  IF Len(validMetadata) = 0 THEN Fail("Failed to process any videos")
  ELSE
    LET result == validMetadata[1] IN
    IF ~autoDownload /\ IsSome(result.videoUrl) /\ NonEmpty(result.videoUrl[1])
      THEN Return(result, None)
    ELSE IF includeFullData /\ autoDownload /\ NonEmpty(result.filepath)
      THEN Running("readingResult")
    ELSE Return(result, None)

\* `await Promise.all(videoPromises)` with no task rejected so far
Join(ts, autoDownload, includeFullData) ==
  IF AllFulfilled(ts) THEN AfterAll(ts, autoDownload, includeFullData)
  ELSE Running("awaitAll")

----------------------------------------------------------------------------
(* The tool layer around a video generation *)

NoEnvelope == [st |-> "none", isError |-> FALSE, content |-> << >>]

TextItem(body) == [type |-> "text", body |-> body]

ImageItem(mimeType, data) == [type |-> "image", body |-> << mimeType, data >>]

\* a variant of the catch block that throws the failure on to the caller
ToolRethrow(prefix, msg) ==
  [st |-> "threw", isError |-> FALSE, content |-> << >>]

\* the catch block of a tool: the failure becomes the result
ToolCatch(prefix, msg) ==
  [st |-> "returned", isError |-> TRUE,
   content |-> << TextItem(<< prefix, msg >>) >>]

\* the result a video tool builds from what the gateway returned
VideoToolSuccess(a, oc) ==
  [st |-> "returned", isError |-> FALSE,
   content |->
     (IF Truthy(a.includeFullData) /\ IsSome(oc.videoData)
        THEN << ImageItem(oc.meta[1].mimeType, oc.videoData[1]) >>
        ELSE << >>)
     \o << TextItem([success |-> TRUE, videoId |-> oc.meta[1].id,
                     filepath |-> oc.meta[1].filepath,
                     videoUrl |-> oc.meta[1].videoUrl,
                     metadata |-> oc.meta[1]]) >>]

\* the sample images the image model can return, as raw bytes
ImageBytes == { << 137, 80 >>, << 255, 216 >> }

\* Buffer.from(s, 'base64'): four 6-bit digits become up to three bytes
RECURSIVE Base64Decode(_)
Base64Decode(s) ==
  IF Len(s) < 4 THEN << >>
  ELSE
    LET b1 == s[1] * 4 + s[2] \div 16
        b2 == (s[2] % 16) * 16 + s[3] \div 4
        b3 == (s[3] % 4) * 64 + s[4]
    IN IF s[3] = 64 THEN << b1 >>
       ELSE IF s[4] = 64 THEN << b1, b2 >>
       ELSE << b1, b2, b3 >> \o Base64Decode(SubSeq(s, 5, Len(s)))

\* path.join(appConfig.STORAGE_DIR, 'images')
ImageStorageDir == "STORAGE_DIR/images"

\* path.resolve(IMAGE_STORAGE_DIR, `${id}${extension}`)
ImagePath(id, ext) == << ImageStorageDir, id, ext >>

\* the file extension saveGeneratedImage picks for a MIME type
ImageExtension(mimeType) ==
  IF mimeType \in { "image/jpeg", "image/jpg" } THEN ".jpg"
  ELSE IF mimeType = "image/webp" THEN ".webp"
  ELSE ".png"

\* the metadata saveGeneratedImage builds
ImageMetadata(id, mimeType, buffer) ==
  [id |-> id, mimeType |-> mimeType, size |-> Len(buffer),
   filepath |-> ImagePath(id, ImageExtension(mimeType))]

\* the image a tool holds in memory: its base64 text and the id it was saved as
NoImage == [data |-> << >>, id |-> << >>]

\* response.generatedImages: undefined, or a list of images whose imageBytes
\* (base64 text) may be missing
ImageResponses ==
  { None, Some(<< >>), Some(<< None >>) }
    \cup { Some(<< Some(Base64(b)) >>) : b \in ImageBytes }

\* the text each tool puts in front of the message of a failure
ErrorPrefix(t) ==
  CASE t = "generateImage" -> "Error generating image: "
    [] t = "generateVideoFromGeneratedImage" ->
         "Error generating video from generated image: "
    [] t = "getImage" -> "Error getting image: "
    [] t = "listGeneratedImages" -> "Error listing images: "
    [] t = "listGeneratedVideos" -> "Error listing videos: "
    [] OTHER -> "Error generating video: "

\* the result generateImage builds once the image is saved
GenerateImageSuccess(o, im) ==
  [st |-> "returned", isError |-> FALSE,
   content |->
     (IF o.includeFullData
        THEN << ImageItem("image/png", im.data) >>
        ELSE << >>)
     \o << TextItem([success |-> TRUE, imageId |-> im.id,
                     filepath |-> ImagePath(im.id, ".png")]) >>]

\* the result generateVideoFromGeneratedImage builds from the gateway's answer
CompoundSuccess(a, im, oc) ==
  [st |-> "returned", isError |-> FALSE,
   content |->
     << ImageItem("image/png", im.data) >>
     \o (IF Truthy(a.includeFullData) /\ IsSome(oc.videoData)
           THEN << ImageItem(oc.meta[1].mimeType, oc.videoData[1]) >>
           ELSE << >>)
     \o << TextItem([success |-> TRUE, videoId |-> oc.meta[1].id,
                     filepath |-> oc.meta[1].filepath,
                     videoUrl |-> oc.meta[1].videoUrl,
                     imageId |-> im.id,
                     metadata |-> oc.meta[1]]) >>]

\* a video tool, from the gateway's answer on
ToolEnvelope(t, a, im, oc) ==
  IF oc.st = "error" THEN ToolCatch(ErrorPrefix(t), oc.msg)
  ELSE IF t = "generateVideoFromGeneratedImage" THEN CompoundSuccess(a, im, oc)
  ELSE VideoToolSuccess(a, oc)

\* the history kept of a run: the completed operation handle the call got,
\* the fetches it started, the paths it wrote, the videos saved whole, and
\* the paths damaged from outside
NewTrace ==
  [op |-> [done |-> FALSE, videos |-> None], fetches |-> 0, written |-> {},
   saved |-> {}, damaged |-> {}, images |-> None]

\* the call moves to state cs; when it ends, the tool answers its caller
SetCall(cs) ==
  /\ pc' = cs.pc
  /\ outcome' = cs.outcome
  /\ envelope' =
       IF cs.pc = "done" THEN ToolEnvelope(tool, args, img, cs.outcome)
       ELSE envelope

\* an image tool fails before it reaches the gateway
ToolFail(msg) ==
  /\ pc' = "done"
  /\ envelope' = ToolCatch(ErrorPrefix(tool), msg)
  /\ UNCHANGED outcome

----------------------------------------------------------------------------
(* The configuration of a call, from the request to the stored metadata *)
(* A prompt is kept as its length; negativePrompt takes no part in what   *)
(* follows and is left out.                                               *)

AspectRatios == { "16:9", "9:16" }

PersonGenerations == { "dont_allow", "allow_adult" }

\* z.number().min(5).max(8)
MinDurationSeconds == 5
MaxDurationSeconds == 8
\* z.number().min(1).max(4)
MaxNumberOfImages == 4
\* z.string().min(1).max(1000)
MaxPromptLength == 1000
\* 'Generate a video from this image'.length
DefaultPromptLength == 32

\* the tools that make a video
GeneratingTools == VideoTools \cup { "generateVideoFromGeneratedImage" }

\* the tools that make a video of an image
ImageToVideoTools ==
  { "generateVideoFromImage", "generateVideoFromGeneratedImage" }

\* x || d, x a string or undefined
StringOr(x, d) == IF IsSome(x) /\ x[1] # "" THEN x[1] ELSE d

\* x || d, x a number or undefined
NumberOr(x, d) == IF IsSome(x) /\ x[1] # 0 THEN x[1] ELSE d

\* the result of parsing one parameter
Valid(v) == [ok |-> TRUE, v |-> v]

Invalid == [ok |-> FALSE, v |-> None]

\* z.enum(allowed).default(d)
ZodEnum(x, allowed, d) ==
  IF x = None THEN Valid(Some(d))
  ELSE IF x[1] \in allowed THEN Valid(x) ELSE Invalid

\* a variant whose bounds are exclusive
ZodNumberExclusive(x, min, max, d) ==
  IF x = None THEN Valid(Some(d))
  ELSE IF x[1] > min /\ x[1] < max THEN Valid(x) ELSE Invalid

\* z.number().min(min).max(max).default(d)
ZodNumber(x, min, max, d) ==
  IF x = None THEN Valid(Some(d))
  ELSE IF x[1] >= min /\ x[1] <= max THEN Valid(x) ELSE Invalid

\* z.union([z.literal(1), z.literal(2)]).default(1)
ZodOneOrTwo(x) ==
  IF x = None THEN Valid(Some(1))
  ELSE IF x[1] = 1 \/ x[1] = 2 THEN Valid(x) ELSE Invalid

\* z.string().min(1).max(1000)
ZodPrompt(x) ==
  IF x = None THEN Invalid
  ELSE IF x[1] >= 1 /\ x[1] <= MaxPromptLength THEN Valid(x) ELSE Invalid

\* z.string().min(1).max(1000).optional()
ZodOptionalPrompt(x) == IF x = None THEN Valid(None) ELSE ZodPrompt(x)

\* z.string().min(1).max(1000).optional().default(...)
ZodDefaultPrompt(x) ==
  IF x = None THEN Valid(Some(DefaultPromptLength)) ELSE ZodPrompt(x)

\* a parameter the schema of the tool does not name is stripped
Stripped == Valid(None)

\* the schema the server registers for tool t, applied to the arguments a
ToolSchema(t, a) ==
  [prompt |->
     IF t = "generateVideoFromImage" THEN ZodDefaultPrompt(a.prompt)
     ELSE ZodPrompt(a.prompt),
   videoPrompt |->
     IF t = "generateVideoFromGeneratedImage"
     THEN ZodOptionalPrompt(a.videoPrompt) ELSE Stripped,
   numberOfImages |->
     IF t \in ImageTools
     THEN ZodNumber(a.numberOfImages, 1, MaxNumberOfImages, 1) ELSE Stripped,
   aspectRatio |->
     IF t \in GeneratingTools
     THEN ZodEnum(a.aspectRatio, AspectRatios, "16:9") ELSE Stripped,
   personGeneration |->
     IF t \in GeneratingTools
     THEN ZodEnum(a.personGeneration, PersonGenerations, "dont_allow")
     ELSE Stripped,
   numberOfVideos |->
     IF t \in GeneratingTools THEN ZodOneOrTwo(a.numberOfVideos)
     ELSE Stripped,
   durationSeconds |->
     IF t \in GeneratingTools
     THEN ZodNumber(a.durationSeconds, MinDurationSeconds,
                    MaxDurationSeconds, MinDurationSeconds)
     ELSE Stripped,
   enhancePrompt |->
     IF t \in GeneratingTools THEN Valid(ZodDefault(a.enhancePrompt, FALSE))
     ELSE Stripped]

\* the schema accepts the arguments
SchemaAccepts(t, a) ==
  \A f \in DOMAIN ToolSchema(t, a) : ToolSchema(t, a)[f].ok

\* the arguments the tool function is called with
ParsedArgs(t, a) == [f \in DOMAIN ToolSchema(t, a) |-> ToolSchema(t, a)[f].v]

\* a variant with other defaults
VideoConfigPortrait(a) ==
  [aspectRatio |-> Some(StringOr(a.aspectRatio, "9:16")),
   personGeneration |-> Some(StringOr(a.personGeneration, "allow_adult")),
   numberOfVideos |-> Some(NumberOr(a.numberOfVideos, 1)),
   durationSeconds |-> Some(NumberOr(a.durationSeconds, 8)),
   enhancePrompt |-> Some(CoerceOrDefault(a.enhancePrompt, FALSE))]

\* the config object the tool function builds of its arguments, with the
\* enhancePrompt it has coerced
VideoConfig(a) ==
  [aspectRatio |-> Some(StringOr(a.aspectRatio, "16:9")),
   personGeneration |-> Some(StringOr(a.personGeneration, "dont_allow")),
   numberOfVideos |-> Some(NumberOr(a.numberOfVideos, 1)),
   durationSeconds |-> Some(NumberOr(a.durationSeconds, 5)),
   enhancePrompt |-> Some(CoerceOrDefault(a.enhancePrompt, FALSE))]

\* imageConfig: { numberOfImages: args.numberOfImages || 1 }
ImageConfig(a) == [numberOfImages |-> NumberOr(a.numberOfImages, 1)]

\* config?.f
ConfigField(c, f) == IF IsSome(c) THEN c[1][f] ELSE None

\* if (config?.f) generateConfig.f = config.f, for a string and for a number
CopyString(c, f) ==
  IF StringOr(ConfigField(c, f), "") # "" THEN ConfigField(c, f) ELSE None

CopyNumber(c, f) ==
  IF NumberOr(ConfigField(c, f), 0) # 0 THEN ConfigField(c, f) ELSE None

\* a gateway that hands the tool's config object to the remote as it is
GenerateConfigWhole(c) == IF IsSome(c) THEN c[1] ELSE [aspectRatio |-> None]

\* requestParams.config, as generateFromText and generateFromImage build it
GenerateConfig(c) ==
  [aspectRatio |-> CopyString(c, "aspectRatio"),
   personGeneration |-> CopyString(c, "personGeneration"),
   numberOfVideos |-> CopyNumber(c, "numberOfVideos"),
   durationSeconds |-> CopyNumber(c, "durationSeconds")]

\* metadata.config, as saveVideoBuffer records it
SavedConfig(c) ==
  [aspectRatio |-> StringOr(ConfigField(c, "aspectRatio"), "16:9"),
   personGeneration |->
     StringOr(ConfigField(c, "personGeneration"), "dont_allow"),
   durationSeconds |-> NumberOr(ConfigField(c, "durationSeconds"), 5)]

\* metadata.config, as the fan-out records it for a video left remote
DeferredConfig(c) ==
  [aspectRatio |-> StringOr(ConfigField(c, "aspectRatio"), "16:9"),
   personGeneration |->
     StringOr(ConfigField(c, "personGeneration"), "dont_allow"),
   durationSeconds |-> NumberOr(ConfigField(c, "durationSeconds"), 5)]

\* a request for tool t with the arguments a has arrived
Received(t, a) ==
  [stage |-> "received", tool |-> t, given |-> a, args |-> a,
   validated |-> FALSE, config |-> None, imageConfig |-> None,
   generateConfig |-> None, metadata |-> None]

\* every step of this path leaves the rest of the model alone
ConfigOnly ==
  UNCHANGED << files, nextUuid, tool, args, options, img, pc, polls, tasks,
               outcome, envelope, trace, lastRead, imageInput,
               logger, transports >>

\* the server validates the request against the schema of the tool
SchemaParses ==
  /\ config.stage = "received"
  /\ config' =
       IF SchemaAccepts(config.tool, config.args)
       THEN [config EXCEPT !.stage = "parsed", !.validated = TRUE,
                           !.args = ParsedArgs(config.tool, config.args)]
       ELSE [config EXCEPT !.stage = "rejected"]
  /\ ConfigOnly

\* the tool function builds its config objects
ToolBuildsConfig ==
  /\ config.stage = "parsed"
  /\ config' =
       [config EXCEPT
          !.stage = "built",
          !.config = IF config.tool \in GeneratingTools
                     THEN Some(VideoConfig(config.args)) ELSE None,
          !.imageConfig = IF config.tool \in ImageTools
                          THEN Some(ImageConfig(config.args)) ELSE None]
  /\ ConfigOnly

\* the tool function is called with the arguments as the caller gave them
ToolCalledDirectly ==
  /\ config.stage = "received"
  /\ config.tool \in GeneratingTools
  /\ config' = [config EXCEPT !.stage = "parsed"]
  /\ ConfigOnly

\* the tool sends the image request to the remote service
ImagesRequested ==
  /\ config.stage = "built"
  /\ config.tool \in ImageTools
  /\ config' = [config EXCEPT !.stage = "imagined"]
  /\ ConfigOnly

\* the gateway sends the generation request to the remote service
GatewaySends ==
  /\ \/ config.stage = "built" /\ config.tool \in VideoTools
     \/ config.stage = "imagined" /\ config.tool \in GeneratingTools
  /\ config' = [config EXCEPT !.stage = "sent",
                              !.generateConfig =
                                 Some(GenerateConfig(config.config))]
  /\ ConfigOnly

\* a generated video is downloaded and saved with its metadata
ConfigSaved ==
  /\ config.stage = "sent"
  /\ config' = [config EXCEPT !.stage = "saved",
                              !.metadata = Some(SavedConfig(config.config))]
  /\ ConfigOnly

\* a generated video is left remote and its metadata saved
ConfigDeferred ==
  /\ config.stage = "sent"
  /\ config' = [config EXCEPT !.stage = "deferred",
                              !.metadata = Some(DeferredConfig(config.config))]
  /\ ConfigOnly

----------------------------------------------------------------------------
(* The image normalizer: processImageInput                               *)
(* An image reference is a sequence of characters; a MIME type is one    *)
(* string.                                                               *)

\* the characters of the base64 digits 0..63, and '=' for the padding 64
Base64Alphabet ==
  << "A", "B", "C", "D", "E", "F", "G", "H", "I", "J", "K", "L", "M",
     "N", "O", "P", "Q", "R", "S", "T", "U", "V", "W", "X", "Y", "Z",
     "a", "b", "c", "d", "e", "f", "g", "h", "i", "j", "k", "l", "m",
     "n", "o", "p", "q", "r", "s", "t", "u", "v", "w", "x", "y", "z",
     "0", "1", "2", "3", "4", "5", "6", "7", "8", "9", "+", "/", "=" >>

\* the text of a sequence of base64 digits
Base64Text(digits) == [i \in 1..Len(digits) |-> Base64Alphabet[digits[i] + 1]]

\* String.prototype.startsWith
StartsWith(s, prefix) ==
  Len(s) >= Len(prefix) /\ SubSeq(s, 1, Len(prefix)) = prefix

\* String.prototype.includes
Includes(s, part) ==
  \E i \in 1..(Len(s) - Len(part) + 1) : SubSeq(s, i, i + Len(part) - 1) = part

\* image.startsWith('http://') || image.startsWith('https://')
IsUrl(image) ==
  \/ StartsWith(image, << "h", "t", "t", "p", ":", "/", "/" >>)
  \/ StartsWith(image, << "h", "t", "t", "p", "s", ":", "/", "/" >>)

\* image.startsWith('/') || image.includes(':\\') || image.includes(':/')
IsFilePath(image) ==
  \/ StartsWith(image, << "/" >>)
  \/ Includes(image, << ":", "\\" >>)
  \/ Includes(image, << ":", "/" >>)

\* the branch processImageInput takes
Classify(image) ==
  IF IsUrl(image) THEN "url" ELSE IF IsFilePath(image) THEN "path" ELSE "inline"

\* the last place of character c in s, 0 when there is none
LastIndexOf(s, c) ==
  IF \E i \in 1..Len(s) : s[i] = c
  THEN CHOOSE i \in 1..Len(s) : s[i] = c /\ \A j \in (i + 1)..Len(s) : s[j] # c
  ELSE 0

\* path.extname: from the last '.' of the last path segment, '' when the
\* segment has none or only a leading one
ExtName(p) ==
  LET base == SubSeq(p, LastIndexOf(p, "/") + 1, Len(p))
      dot == LastIndexOf(base, ".")
  IN IF dot <= 1 THEN << >> ELSE SubSeq(base, dot, Len(base))

\* switch (extension) of processImageInput
ExtensionMimeType(extension) ==
  CASE extension = << ".", "p", "n", "g" >> -> "image/png"
    [] extension = << ".", "j", "p", "g" >> -> "image/jpeg"
    [] extension = << ".", "j", "p", "e", "g" >> -> "image/jpeg"
    [] extension = << ".", "g", "i", "f" >> -> "image/gif"
    [] extension = << ".", "w", "e", "b", "p" >> -> "image/webp"
    [] OTHER -> "image/jpeg"

\* a variant that looks at the extension before the hint
FileMimeTypeByExtension(image, mimeType) ==
  IF ExtName(image) # << >> THEN ExtensionMimeType(ToLowerCase(ExtName(image)))
  ELSE StringOr(mimeType, "image/jpeg")

\* the MIME type of a file: the hint, or else by the extension
FileMimeType(image, mimeType) ==
  IF StringOr(mimeType, "") # "" THEN mimeType[1]
  ELSE ExtensionMimeType(ToLowerCase(ExtName(image)))

\* response.headers.get('content-type') || mimeType || 'image/jpeg'
ResponseMimeType(contentType, mimeType) ==
  StringOr(contentType, StringOr(mimeType, "image/jpeg"))

\* mimeType || 'image/png'
InlineMimeType(mimeType) == StringOr(mimeType, "image/png")

\* the image references a caller sends: URLs, paths, a relative name, and
\* the base64 text of image bytes
ImageReferences ==
  { << "h", "t", "t", "p", ":", "/", "/", "h", "/", "a" >>,
    << "h", "t", "t", "p", "s", ":", "/", "/", "h", "/", "a", ".", "p", "n", "g" >>,
    << "/", "a", ".", "p", "n", "g" >>,
    << "/", "A", ".", "P", "N", "G" >>,
    << "/", "a", ".", "j", "p", "g" >>,
    << "/", "a", ".", "j", "p", "e", "g" >>,
    << "/", "a", ".", "g", "i", "f" >>,
    << "/", "a", ".", "w", "e", "b", "p" >>,
    << "/", "a", ".", "b", "m", "p" >>,
    << "/", "a", ".", "d", "/", "b" >>,
    << "C", ":", "\\", "a", ".", "p", "n", "g" >>,
    << "C", ":", "/", "a", ".", "g", "i", "f" >>,
    << "a", ".", "p", "n", "g" >> }
  \cup { Base64Text(Base64(b)) : b \in ImageBytes }

\* the MIME type hints: none, an empty one, and one no extension maps to
MimeTypeHints == { None, Some(""), Some("image/bmp") }

\* the content types a response declares: none, an empty one, an image type
ContentTypes == { None, Some(""), Some("image/webp") }

\* generateFromImage hands a reference and a hint to processImageInput
Given(image, mimeType) ==
  [stage |-> "given", image |-> image, mimeType |-> mimeType,
   branch |-> "none", imageBytes |-> << >>, resultMimeType |-> "",
   contentType |-> None, fetches |-> 0, reads |-> 0, error |-> ""]

\* the normalizer after fetch(image) answered: a response that is not ok
\* makes it throw
AfterFetch(input, ok, contentType, buffer) ==
  IF ~ok
  THEN [input EXCEPT !.stage = "thrown", !.branch = "url", !.fetches = @ + 1,
                     !.error = "Failed to fetch image"]
  ELSE [input EXCEPT
          !.stage = "returned", !.branch = "url", !.fetches = @ + 1,
          !.contentType = contentType,
          !.imageBytes = Base64Text(Base64(buffer)),
          !.resultMimeType = ResponseMimeType(contentType, input.mimeType)]

\* the normalizer after fetch(image) rejected
AfterFetchRejected(input) ==
  [input EXCEPT !.stage = "thrown", !.branch = "url", !.fetches = @ + 1,
                !.error = "fetch failed"]

\* the normalizer after fs.readFile(image) returned the bytes of the file
AfterReadFile(input, buffer) ==
  [input EXCEPT
     !.stage = "returned", !.branch = "path", !.reads = @ + 1,
     !.imageBytes = Base64Text(Base64(buffer)),
     !.resultMimeType = FileMimeType(input.image, input.mimeType)]

\* the normalizer after fs.readFile(image) threw: there is no such file
AfterReadFileThrown(input) ==
  [input EXCEPT !.stage = "thrown", !.branch = "path", !.reads = @ + 1,
                !.error = "ENOENT"]

\* the normalizer took the reference for base64 data and returns it as it is
AfterPassThrough(input) ==
  [input EXCEPT
     !.stage = "returned", !.branch = "inline", !.imageBytes = input.image,
     !.resultMimeType = InlineMimeType(input.mimeType)]

\* every step of the normalizer leaves the rest of the model alone
NormalizerOnly ==
  UNCHANGED << files, nextUuid, tool, args, options, img, pc, polls, tasks,
               outcome, envelope, trace, lastRead, config, logger, transports >>

\* fetch(image) answered
FetchReturns(ok, contentType, buffer) ==
  /\ imageInput.stage = "given"
  /\ IsUrl(imageInput.image)
  /\ imageInput' = AfterFetch(imageInput, ok, contentType, buffer)
  /\ NormalizerOnly

\* fetch(image) rejected
FetchRejects ==
  /\ imageInput.stage = "given"
  /\ IsUrl(imageInput.image)
  /\ imageInput' = AfterFetchRejected(imageInput)
  /\ NormalizerOnly

\* fs.readFile(image) returned
ReadFileReturns(buffer) ==
  /\ imageInput.stage = "given"
  /\ Classify(imageInput.image) = "path"
  /\ imageInput' = AfterReadFile(imageInput, buffer)
  /\ NormalizerOnly

\* fs.readFile(image) threw
ReadFileThrows ==
  /\ imageInput.stage = "given"
  /\ Classify(imageInput.image) = "path"
  /\ imageInput' = AfterReadFileThrown(imageInput)
  /\ NormalizerOnly

\* the reference is neither a URL nor a path
PassThrough ==
  /\ imageInput.stage = "given"
  /\ Classify(imageInput.image) = "inline"
  /\ imageInput' = AfterPassThrough(imageInput)
  /\ NormalizerOnly

\* what the compound tool hands to generateFromImage: the base64 text of the
\* generated image, and 'image/png'
GeneratedImageInput(image) == Given(Base64Text(image.data), Some("image/png"))

----------------------------------------------------------------------------
(* Starting a video generation *)

\* the values of includeFullData in the calls of this model
IncludeFullDataFlags == { Undefined, Bool(TRUE), Str(<< "0" >>) }

\* the values of autoDownload in the calls of this model
AutoDownloadFlags == { Undefined, Str(<< "0" >>) }

\* the forms of image reference processImageInput tells apart
ImageKinds == { "inline", "path", "url" }

\* the first characters decide what processImageInput takes the text for:
\* 63 is '/', the first character of an absolute path
ImageKind(image) ==
  IF Len(image) > 0 /\ image[1] = 63 THEN "path" ELSE "inline"

\* the tool function up to the gateway's first await
StartVideoTool(t, a) ==
  /\ pc = "idle"
  /\ tool' = t
  /\ args' = a
  /\ pc' = IF t = "generateVideoFromImage" THEN "normalizing" ELSE "calling"
  /\ options' = ToolOptions(t, a)
  /\ UNCHANGED << files, nextUuid, img, polls, tasks, outcome, envelope,
                  trace, lastRead, config, imageInput, logger, transports >>

\* processImageInput has the image bytes: passed through, read or fetched
NormalizeReturns(kind) ==
  /\ pc = "normalizing"
  /\ IF tool = "generateVideoFromGeneratedImage" THEN
       /\ kind = ImageKind(img.data)
       /\ kind = Classify(Base64Text(img.data))
       /\ \E buffer \in ImageBytes :
            imageInput' =
              IF kind = "path"
              THEN AfterReadFile(GeneratedImageInput(img), buffer)
              ELSE AfterPassThrough(GeneratedImageInput(img))
     ELSE UNCHANGED imageInput
  /\ pc' = "calling"
  /\ UNCHANGED << files, nextUuid, tool, args, options, img, polls, tasks,
                  outcome, envelope, trace, lastRead, config,
                  logger, transports >>

\* processImageInput: fs.readFile threw, or the response was not ok
NormalizeThrows(kind) ==
  /\ pc = "normalizing"
  /\ kind \in { "path", "url" }
  /\ IF tool = "generateVideoFromGeneratedImage" THEN
       /\ kind = ImageKind(img.data)
       /\ kind = Classify(Base64Text(img.data))
       /\ imageInput' = AfterReadFileThrown(GeneratedImageInput(img))
     ELSE UNCHANGED imageInput
  /\ SetCall(Fail("Failed to fetch image"))
  /\ UNCHANGED << files, nextUuid, tool, args, options, img, polls, tasks,
                  trace, lastRead, config, logger, transports >>

----------------------------------------------------------------------------
(* Generating an image *)

\* generateImage / generateVideoFromGeneratedImage, up to generateImages
StartImageTool(t, a) ==
  /\ pc = "idle"
  /\ tool' = t
  /\ args' = a
  /\ pc' = "imagining"
  /\ options' = ToolOptions(t, a)
  /\ UNCHANGED << files, nextUuid, img, polls, tasks, outcome, envelope,
                  trace, lastRead, config, imageInput, logger, transports >>

\* a tool that saves the last of the generated images
ImagesReturnLast(response) ==
  /\ pc = "imagining"
  /\ IF ~IsSome(response) \/ Len(response[1]) = 0 THEN
       /\ ToolFail("No images generated in the response")
       /\ UNCHANGED << img, nextUuid >>
     ELSE IF \/ ~IsSome(response[1][Len(response[1])])
             \/ ~NonEmpty(response[1][Len(response[1])][1]) THEN
       /\ ToolFail("Generated image missing image bytes")
       /\ UNCHANGED << img, nextUuid >>
     ELSE
       /\ img' = [data |-> response[1][Len(response[1])][1],
                  id |-> VideoId(nextUuid + 1, 0)]
       /\ nextUuid' = nextUuid + 1
       /\ pc' = "writingImage"
       /\ UNCHANGED << outcome, envelope >>
  /\ trace' = [trace EXCEPT !.images = response]
  /\ UNCHANGED << files, tool, args, options, polls, tasks, lastRead,
                  config, imageInput, logger, transports >>

\* ai.models.generateImages answered; saveGeneratedImage starts on image one
ImagesReturn(response) ==
  /\ pc = "imagining"
  /\ IF ~IsSome(response) \/ Len(response[1]) = 0 THEN
       /\ ToolFail("No images generated in the response")
       /\ UNCHANGED << img, nextUuid, config, imageInput, logger, transports >>
     ELSE IF ~IsSome(response[1][1]) \/ ~NonEmpty(response[1][1][1]) THEN
       /\ ToolFail("Generated image missing image bytes")
       /\ UNCHANGED << img, nextUuid, config, imageInput, logger, transports >>
     ELSE
       /\ img' = [data |-> response[1][1][1], id |-> VideoId(nextUuid + 1, 0)]
       /\ nextUuid' = nextUuid + 1
       /\ pc' = "writingImage"
       /\ UNCHANGED << outcome, envelope, config, imageInput,
                       logger, transports >>
  /\ trace' = [trace EXCEPT !.images = response]
  /\ UNCHANGED << files, tool, args, options, polls, tasks, lastRead,
                  config, imageInput, logger, transports >>

\* ai.models.generateImages threw
ImagesThrow ==
  /\ pc = "imagining"
  /\ ToolFail("generateImages failed")
  /\ UNCHANGED << files, nextUuid, tool, args, options, img, polls, tasks,
                  trace,
                  lastRead, config, imageInput, logger, transports >>

\* saveGeneratedImage: the decoded bytes are on disk
ImageBinWritten ==
  /\ pc = "writingImage"
  /\ files' = WriteFile(files, ImagePath(img.id, ImageExtension("image/png")),
                        BinFile(Base64Decode(img.data)))
  /\ trace' = [trace EXCEPT !.written =
                 @ \cup { ImagePath(img.id, ImageExtension("image/png")) }]
  /\ pc' = "writingImageMeta"
  /\ UNCHANGED << nextUuid, tool, args, options, img, polls, tasks, outcome,
                  envelope,
                  lastRead, config, imageInput, logger, transports >>

\* saveGeneratedImage: the sidecar is on disk; generateImage answers, the
\* compound tool hands the image to veoClient.generateFromImage
ImageMetaWritten ==
  /\ pc = "writingImageMeta"
  /\ files' = WriteFile(files, ImagePath(img.id, ".json"),
                        JsonFile(ImageMetadata(img.id, "image/png",
                                               Base64Decode(img.data))))
  /\ trace' = [trace EXCEPT !.written = @ \cup { ImagePath(img.id, ".json") }]
  /\ IF tool = "generateImage" THEN
       /\ pc' = "done"
       /\ envelope' = GenerateImageSuccess(options, img)
     ELSE
       /\ pc' = "normalizing"
       /\ UNCHANGED envelope
  /\ UNCHANGED << nextUuid, tool, args, options, img, polls, tasks, outcome,
                  lastRead, config, imageInput, logger, transports >>

\* saveGeneratedImage: fs.writeFile threw
ImageWriteFailed ==
  /\ pc \in { "writingImage", "writingImageMeta" }
  /\ ToolFail("EIO")
  /\ UNCHANGED << files, nextUuid, tool, args, options, img, polls, tasks,
                  trace,
                  lastRead, config, imageInput, logger, transports >>

----------------------------------------------------------------------------
(* The remote call, the polling loop and the start of the fan-out *)

\* a variant without the check of the result list: an absent or empty list
\* goes on to the fan-out, over no task
HandleOperationNoEmptyCheck(op) ==
  IF ~op.done THEN
    /\ pc' = "waiting"
    /\ UNCHANGED << nextUuid, tasks, outcome, envelope, trace, config, imageInput,
                    logger, transports >>
  ELSE
    LET l == IF IsSome(op.videos) THEN op.videos[1] ELSE << >>
        ts == [i \in 1..Len(l) |->
                 StartTask(l[i], i - 1, nextUuid + UriCount(l, i),
                           AutoDownload)]
    IN /\ tasks' = ts
       /\ nextUuid' = nextUuid + UriCount(l, Len(l))
       /\ trace' = [trace EXCEPT
                      !.op = op,
                      !.fetches = @ + Cardinality({ i \in DOMAIN ts :
                                                      ts[i].st = "fetching" })]
       /\ SetCall(Join(ts, AutoDownload, IncludeFullData))

\* the handling of a handle that re-fetches the status at once, without the
\* wait, when the handle is not done
HandleOperationNoWait(op) ==
  IF ~op.done THEN
    /\ pc' = "refetching"
    /\ UNCHANGED << nextUuid, tasks, outcome, envelope, trace, config,
                    imageInput, logger, transports >>
  ELSE HandleOperationNoEmptyCheck(op)

\* what follows the arrival of an operation handle, up to the next await
HandleOperation(op) ==
  IF ~op.done THEN
    /\ pc' = "waiting"
    /\ UNCHANGED << nextUuid, tasks, outcome, envelope, trace, config, imageInput,
                    logger, transports >>
  ELSE IF ~IsSome(op.videos) \/ Len(op.videos[1]) = 0 THEN
    /\ SetCall(Fail("No videos generated in the response"))
    /\ trace' = [trace EXCEPT !.op = op]
    /\ UNCHANGED << nextUuid, tasks, config, imageInput, logger, transports >>
  ELSE
    LET l == op.videos[1]
        ts == [i \in 1..Len(l) |->
                 StartTask(l[i], i - 1, nextUuid + UriCount(l, i),
                           AutoDownload)]
    IN /\ tasks' = ts
       /\ nextUuid' = nextUuid + UriCount(l, Len(l))
       /\ trace' = [trace EXCEPT
                      !.op = op,
                      !.fetches = @ + Cardinality({ i \in DOMAIN ts :
                                                      ts[i].st = "fetching" })]
       /\ SetCall(Join(ts, AutoDownload, IncludeFullData))

\* this.client.models.generateVideos(requestParams) answers
RemoteCallReturns(op) ==
  /\ pc = "calling"
  /\ (polls >= MaxPolls => op.done)
  /\ HandleOperation(op)
  /\ UNCHANGED << files, tool, args, options, img, polls, lastRead, config, imageInput,
                  logger, transports >>

RemoteCallThrows ==
  /\ pc = "calling"
  /\ SetCall(Fail("RemoteCallFailed"))
  /\ UNCHANGED << files, nextUuid, tool, args, options, img, polls, tasks,
                  trace, lastRead, config, imageInput, logger, transports >>

\* a polling loop with a timeout: the call gives up after the wait
TimerGivesUp ==
  /\ pc = "waiting"
  /\ SetCall(Fail("Timed out waiting for the operation"))
  /\ UNCHANGED << files, nextUuid, tool, args, options, img, polls, tasks,
                  trace, lastRead, config, imageInput, logger, transports >>

\* the 5000 ms timer of the polling loop fires: the status is re-fetched
TimerFires ==
  /\ pc = "waiting"
  /\ pc' = "refetching"
  /\ polls' = polls + 1
  /\ UNCHANGED << files, nextUuid, tool, args, options, img, tasks, outcome,
                  envelope,
                  trace, lastRead, config, imageInput, logger, transports >>

\* this.client.operations.getVideosOperation({operation}) answers
StatusReturns(op) ==
  /\ pc = "refetching"
  /\ (polls >= MaxPolls => op.done)
  /\ HandleOperation(op)
  /\ UNCHANGED << files, tool, args, options, img, polls, lastRead, config, imageInput,
                  logger, transports >>

StatusThrows ==
  /\ pc = "refetching"
  /\ SetCall(Fail("RemoteCallFailed"))
  /\ UNCHANGED << files, nextUuid, tool, args, options, img, polls, tasks,
                  trace, lastRead, config, imageInput, logger, transports >>

----------------------------------------------------------------------------
(* The fan-out: the steps of one task, and Promise.all over the tasks *)

\* a task was fulfilled: Promise.all resolves once all of them are
OnFulfil(ts) ==
  IF pc = "awaitAll" THEN SetCall(Join(ts, AutoDownload, IncludeFullData))
  ELSE UNCHANGED << pc, outcome, envelope, config, imageInput,
                    logger, transports >>

\* a task was rejected: Promise.all rejects at once, its siblings go on
OnReject(msg) ==
  IF pc = "awaitAll" THEN SetCall(Fail(msg))
  ELSE UNCHANGED << pc, outcome, envelope, config, imageInput,
                    logger, transports >>

Rejected(t, msg) == [t EXCEPT !.st = "rejected", !.err = msg]

\* a save that writes the sidecar of a download without writing its binary
TaskFetchedSidecarFirst(i, b) ==
  /\ i \in DOMAIN tasks
  /\ tasks[i].st = "fetching"
  /\ tasks' = [tasks EXCEPT
                 ![i].st = "writingMeta", ![i].buf = b,
                 ![i].value = Some(SavedMetadata(tasks[i].id, b))]
  /\ UNCHANGED << files, nextUuid, tool, args, options, img, pc, polls,
                  outcome, envelope, trace, lastRead, config, imageInput,
                  logger, transports >>

\* fetch(videoUri) answered ok and its body was read: saveVideoBuffer starts
TaskFetched(i, b) ==
  /\ i \in DOMAIN tasks
  /\ tasks[i].st = "fetching"
  /\ tasks' = [tasks EXCEPT ![i].st = "writingBin", ![i].buf = b]
  /\ UNCHANGED << files, nextUuid, tool, args, options, img, pc, polls,
                  outcome, envelope,
                  trace, lastRead, config, imageInput, logger, transports >>

\* fetch(videoUri) answered with a status that is not ok, or threw
TaskFetchFailed(i, msg) ==
  /\ i \in DOMAIN tasks
  /\ tasks[i].st = "fetching"
  /\ tasks' = [tasks EXCEPT ![i] = Rejected(@, msg)]
  /\ OnReject(msg)
  /\ UNCHANGED << files, nextUuid, tool, args, options, img, polls, trace,
                  lastRead, config, imageInput, logger, transports >>

\* saveVideoBuffer: fs.writeFile(filePath, videoBuffer) is done
TaskBinWritten(i) ==
  /\ i \in DOMAIN tasks
  /\ tasks[i].st = "writingBin"
  /\ LET t == tasks[i]
         filePath == VideoPath(t.id, ".mp4")
     IN /\ files' = WriteFile(files, filePath, BinFile(t.buf))
        /\ trace' = [trace EXCEPT !.written = @ \cup { filePath }]
        /\ tasks' = [tasks EXCEPT
                       ![i].st = "writingMeta",
                       ![i].value = Some(SavedMetadata(t.id, t.buf))]
  /\ UNCHANGED << nextUuid, tool, args, options, img, pc, polls, outcome,
                  envelope,
                  lastRead, config, imageInput, logger, transports >>

\* saveMetadata: fs.writeFile(metadataPath, JSON.stringify(metadata)) is done
TaskMetaWritten(i) ==
  /\ i \in DOMAIN tasks
  /\ tasks[i].st = "writingMeta"
  /\ LET t == tasks[i]
         ts == [tasks EXCEPT ![i].st = "fulfilled"]
     IN /\ files' = WriteFile(files, MetadataPath(t.id), JsonFile(t.value[1]))
        /\ trace' = [trace EXCEPT !.written = @ \cup { MetadataPath(t.id) }]
        /\ tasks' = ts
        /\ OnFulfil(ts)
  /\ UNCHANGED << nextUuid, tool, args, options, img, polls, lastRead, config, imageInput,
                  logger, transports >>

\* fs.writeFile threw (of the binary or of the sidecar): nothing is written
TaskWriteFailed(i) ==
  /\ i \in DOMAIN tasks
  /\ tasks[i].st \in { "writingBin", "writingMeta" }
  /\ tasks' = [tasks EXCEPT ![i] = Rejected([@ EXCEPT !.value = None], "EIO")]
  /\ OnReject("EIO")
  /\ UNCHANGED << files, nextUuid, tool, args, options, img, polls, trace,
                  lastRead, config, imageInput, logger, transports >>

\* fs.readFile(result.filepath) for the inline data of the first video
ResultRead ==
  /\ pc = "readingResult"
  /\ LET result == ValidMetadata(tasks)[1] IN
     SetCall(IF Exists(files, result.filepath)
               THEN Return(result,
                           Some(Base64(files[result.filepath].bytes)))
               ELSE Fail("ENOENT"))
  /\ UNCHANGED << files, nextUuid, tool, args, options, img, polls, tasks,
                  trace, lastRead, config, imageInput, logger, transports >>

\* fs.readFile(result.filepath) threw
ResultReadThrows ==
  /\ pc = "readingResult"
  /\ SetCall(Fail("EIO"))
  /\ UNCHANGED << files, nextUuid, tool, args, options, img, polls, tasks,
                  trace, lastRead, config, imageInput, logger, transports >>

----------------------------------------------------------------------------
(* Several generation calls at once: their fan-outs side by side *)

\* the tasks the map over result list l starts, as HandleOperation starts them
FanOutTasks(l, autoDownload) ==
  [i \in 1..Len(l) |->
     StartTask(l[i], i - 1, nextUuid + UriCount(l, i), autoDownload)]

\* one more call got its completed operation, with result list l: its tasks
\* join the ones of the calls still running
FanOut(l, autoDownload) ==
  /\ pc = "calls"
  /\ Len(l) > 0
  /\ Len(tasks) + Len(l) <= MaxTasks
  /\ tasks' = tasks \o FanOutTasks(l, autoDownload)
  /\ nextUuid' = nextUuid + UriCount(l, Len(l))
  /\ trace' = [trace EXCEPT
                 !.fetches = @ + Cardinality(
                   { i \in 1..Len(l) :
                       FanOutTasks(l, autoDownload)[i].st = "fetching" })]
  /\ UNCHANGED << files, tool, args, options, img, pc, polls, outcome,
                  envelope, lastRead, config, imageInput, logger, transports >>

----------------------------------------------------------------------------
(* What a read or a listing returned *)

NoRead ==
  [op |-> "none", id |-> << >>, full |-> FALSE, ok |-> FALSE, msg |-> "",
   metadata |-> None, data |-> None, videoData |-> None, list |-> {},
   envelope |-> NoEnvelope, read |-> {}, contents |-> << >>]

----------------------------------------------------------------------------
(* The store, one step per operation: saves *)

\* a step of the store leaves the generation call alone
CallUnchanged ==
  UNCHANGED << tool, args, options, img, pc, polls, tasks, outcome, envelope,
                  config, imageInput, logger, transports >>

\* a variant that writes the base64 text of the buffer in place of its bytes
SaveVideoBufferFilesAsText(fs, videoBuffer, id, thrown) ==
  IF thrown = "binary" THEN fs
  ELSE
    LET withBinary == WriteFile(fs, VideoPath(id, ".mp4"),
                                BinFile(Base64(videoBuffer)))
    IN IF thrown = "metadata" THEN withBinary
       ELSE WriteFile(withBinary, MetadataPath(id),
                      JsonFile(SavedMetadata(id, videoBuffer)))

\* saveVideoBuffer as a whole: the binary, then the sidecar; `thrown` is the
\* write that threw ("none", "binary" or "metadata")
SaveVideoBufferFiles(fs, videoBuffer, id, thrown) ==
  IF thrown = "binary" THEN fs
  ELSE
    LET withBinary == WriteFile(fs, VideoPath(id, ".mp4"), BinFile(videoBuffer))
    IN IF thrown = "metadata" THEN withBinary
       ELSE WriteFile(withBinary, MetadataPath(id),
                      JsonFile(SavedMetadata(id, videoBuffer)))

\* a video is downloaded and saved under a fresh identifier
SaveVideoBuffer(videoBuffer, thrown) ==
  /\ nextUuid < MaxUuid
  /\ LET id == VideoId(nextUuid + 1, 0) IN
       /\ files' = SaveVideoBufferFiles(files, videoBuffer, id, thrown)
       /\ trace' = IF thrown = "none"
                     THEN [trace EXCEPT
                             !.saved = @ \cup { << id, videoBuffer >> }]
                     ELSE trace
  /\ nextUuid' = nextUuid + 1
  /\ lastRead' = NoRead
  /\ CallUnchanged

\* a video is left at its remote reference: only the sidecar is written
SaveDeferred(uri, thrown) ==
  /\ nextUuid < MaxUuid
  /\ LET id == VideoId(nextUuid + 1, 0) IN
       files' = IF thrown THEN files
                ELSE WriteFile(files, MetadataPath(id),
                               JsonFile(DeferredMetadata(id, VideoUri(uri))))
  /\ nextUuid' = nextUuid + 1
  /\ lastRead' = NoRead
  /\ UNCHANGED trace
  /\ CallUnchanged

----------------------------------------------------------------------------
(* What happens to the store from outside the program *)

\* someone deletes the binary of a stored video
DeleteBinary(p) ==
  /\ Exists(files, p)
  /\ files[p].kind = "bin"
  /\ files' = RemoveFile(files, p)
  /\ trace' = [trace EXCEPT !.damaged = @ \cup { p }]
  /\ lastRead' = NoRead
  /\ UNCHANGED nextUuid
  /\ CallUnchanged

\* a sidecar is damaged: its text no longer parses
CorruptSidecar(p) ==
  /\ Exists(files, p)
  /\ files[p].kind = "json"
  /\ files' = WriteFile(files, p, GarbageFile)
  /\ trace' = [trace EXCEPT !.damaged = @ \cup { p }]
  /\ lastRead' = NoRead
  /\ UNCHANGED nextUuid
  /\ CallUnchanged

----------------------------------------------------------------------------
(* The store, one step per operation: reads and listings *)

\* the identifiers a caller can ask for: stored or not
VideoIds == { VideoId(u, 0) : u \in 1..MaxUuid }

\* getMetadata: the parsed sidecar, or None when the read or the parse threw
GetMetadata(fs, id) ==
  LET metadataPath == MetadataPath(id) IN
  IF Exists(fs, metadataPath) /\ fs[metadataPath].kind = "json"
    THEN fs[metadataPath].obj
    ELSE None

\* metadata.mimeType === 'video/mp4' ? '.mp4' : '.webm'
FallbackExtension(metadata) ==
  IF metadata.mimeType = "video/mp4" THEN ".mp4" ELSE ".webm"

\* the path getVideo reads the binary from
ReadPath(id, metadata) ==
  IF NonEmpty(metadata.filepath) THEN metadata.filepath
  ELSE VideoPath(id, FallbackExtension(metadata))

\* getVideo takes the fallback branch, which saves the path to the sidecar
TakesFallback(fs, id, includeFullData) ==
  /\ IsSome(GetMetadata(fs, id))
  /\ includeFullData
  /\ ~NonEmpty(GetMetadata(fs, id)[1].filepath)

\* the file system after getVideo; `thrown` says the fallback's save threw
FilesAfterGetVideo(fs, id, includeFullData, thrown) ==
  LET found == GetMetadata(fs, id) IN
  IF TakesFallback(fs, id, includeFullData) /\ ~thrown
    THEN WriteFile(fs, MetadataPath(id),
                   JsonFile([found[1] EXCEPT
                               !.filepath = ReadPath(id, found[1])]))
    ELSE fs

\* a variant that answers with the metadata alone when the binary is missing
GetVideoResultLenient(fs, id, includeFullData, thrown) ==
  LET found == GetMetadata(fs, id)
      base == [NoRead EXCEPT !.op = "getVideo", !.id = id,
                             !.full = includeFullData]
  IN
  IF ~IsSome(found) THEN [base EXCEPT !.msg = "Video not found"]
  ELSE IF includeFullData /\ Exists(fs, ReadPath(id, found[1]))
    THEN [base EXCEPT !.ok = TRUE, !.metadata = found,
                      !.data = Some(fs[ReadPath(id, found[1])].bytes),
                      !.videoData =
                        Some(Base64(fs[ReadPath(id, found[1])].bytes))]
  ELSE [base EXCEPT !.ok = TRUE, !.metadata = found]

\* what getVideo gives its caller: every throw becomes "Video not found";
\* `read` holds the paths it handed to fs.readFile
GetVideoResult(fs, id, includeFullData, thrown) ==
  LET found == GetMetadata(fs, id)
      base == [NoRead EXCEPT !.op = "getVideo", !.id = id,
                             !.full = includeFullData,
                             !.read = { MetadataPath(id) }]
      notFound == [base EXCEPT !.msg = "Video not found"]
  IN
  IF ~IsSome(found) THEN notFound
  ELSE IF ~includeFullData
    THEN [base EXCEPT !.ok = TRUE, !.metadata = found]
  ELSE IF TakesFallback(fs, id, includeFullData) /\ thrown THEN notFound
  ELSE
    LET filePath == ReadPath(id, found[1])
        metadata == [found[1] EXCEPT !.filepath = filePath]
    IN IF ~Exists(fs, filePath)
         THEN [notFound EXCEPT !.read = @ \cup { filePath }]
       ELSE [base EXCEPT !.ok = TRUE, !.metadata = Some(metadata),
                         !.read = @ \cup { filePath },
                         !.data = Some(fs[filePath].bytes),
                         !.videoData = Some(Base64(fs[filePath].bytes))]

\* veoClient.getVideo(id, {includeFullData})
GetVideo(id, includeFullData, thrown) ==
  /\ thrown => TakesFallback(files, id, includeFullData)
  /\ lastRead' = GetVideoResult(files, id, includeFullData, thrown)
  /\ files' = FilesAfterGetVideo(files, id, includeFullData, thrown)
  /\ UNCHANGED << nextUuid, trace, config, imageInput, logger, transports >>
  /\ CallUnchanged

\* files.filter(file => file.endsWith('.json'))
MetadataFiles(fs) == { p \in ReadDir(fs, StorageDir) : p[3] = ".json" }

\* listVideos: fs.readdir is awaited, so the catch turns its failure into [];
\* the promise of Promise.all is returned without an await, so the catch does
\* not see a sidecar that fails to parse: the call rejects
ListVideos(fs, readdirThrew) ==
  IF readdirThrew THEN [thrown |-> FALSE, videos |-> {}]
  ELSE IF \E p \in MetadataFiles(fs) : fs[p].kind # "json"
    THEN [thrown |-> TRUE, videos |-> {}]
    ELSE [thrown |-> FALSE,
          videos |-> { fs[p].obj[1] : p \in MetadataFiles(fs) }]

\* the result of the listGeneratedVideos tool
ListGeneratedVideosEnvelope(listed) ==
  IF listed.thrown
    THEN ToolCatch(ErrorPrefix("listGeneratedVideos"), "Unexpected token")
    ELSE [st |-> "returned", isError |-> FALSE,
          content |->
            << TextItem([success |-> TRUE,
                         count |-> Cardinality(listed.videos),
                         videos |-> { [id |-> v.id,
                                       filepath |-> v.filepath,
                                       videoUrl |-> v.videoUrl] :
                                      v \in listed.videos }]) >>]

\* the listGeneratedVideos tool, over veoClient.listVideos()
ListGeneratedVideos(readdirThrew) ==
  /\ lastRead' = [NoRead EXCEPT
                    !.op = "listGeneratedVideos",
                    !.ok = ~ListVideos(files, readdirThrew).thrown,
                    !.msg = IF readdirThrew THEN "readdir" ELSE "",
                    !.list = ListVideos(files, readdirThrew).videos,
                    !.envelope = ListGeneratedVideosEnvelope(
                                   ListVideos(files, readdirThrew))]
  /\ UNCHANGED << files, nextUuid, trace, config, imageInput,
                  logger, transports >>
  /\ CallUnchanged

\* the list callback of the videos:// resources: listVideos, uncaught
ListVideoResources(readdirThrew) ==
  /\ lastRead' = [NoRead EXCEPT
                    !.op = "videoResourceTemplate.list",
                    !.ok = ~ListVideos(files, readdirThrew).thrown,
                    !.msg = IF readdirThrew THEN "readdir" ELSE "",
                    !.list = { [uri |-> << "videos://", v.id >>,
                                mimeType |-> v.mimeType,
                                filepath |-> v.filepath] :
                               v \in ListVideos(files, readdirThrew).videos }]
  /\ UNCHANGED << files, nextUuid, trace, config, imageInput,
                  logger, transports >>
  /\ CallUnchanged

\* a variant that takes the flag for set
ResourceIncludeFullDataSet == TRUE

\* const includeFullData = false, in both resource readers
ResourceIncludeFullData == FALSE

\* the JSON text a videos:// read puts in its answer
VideoProjection(metadata) ==
  [id |-> metadata.id, mimeType |-> metadata.mimeType, size |-> metadata.size,
   filepath |-> metadata.filepath, videoUrl |-> metadata.videoUrl]

\* readVideoResource: getVideo, then the blob or the JSON text; a throw of
\* getVideo is thrown on
ReadVideoResourceResult(fs, id) ==
  LET result == GetVideoResult(fs, id, ResourceIncludeFullData, FALSE)
      base == [result EXCEPT !.op = "readVideoResource"]
  IN
  IF ~result.ok THEN base
  ELSE IF ResourceIncludeFullData /\ IsSome(result.videoData)
    THEN [base EXCEPT
            !.contents = << [uri |-> << "videos://", id >>,
                             mimeType |-> result.metadata[1].mimeType,
                             blob |-> result.videoData,
                             text |-> None] >>]
  ELSE [base EXCEPT
          !.contents = << [uri |-> << "videos://", id >>,
                           mimeType |-> "application/json",
                           blob |-> None,
                           text |-> Some(VideoProjection(result.metadata[1]))] >>]

\* a read of the resource videos://{id}
ReadVideoResource(id) ==
  /\ lastRead' = ReadVideoResourceResult(files, id)
  /\ files' = FilesAfterGetVideo(files, id, ResourceIncludeFullData, FALSE)
  /\ UNCHANGED << nextUuid, trace, logger, transports >>
  /\ CallUnchanged

----------------------------------------------------------------------------
(* The image store, one step per operation *)

\* saveGeneratedImage as a whole; `thrown` is the write that threw
SaveGeneratedImageFiles(fs, imageBytes, id, mimeType, thrown) ==
  IF thrown = "binary" THEN fs
  ELSE
    LET buffer == Base64Decode(imageBytes)
        withBinary == WriteFile(fs, ImagePath(id, ImageExtension(mimeType)),
                                BinFile(buffer))
    IN IF thrown = "metadata" THEN withBinary
       ELSE WriteFile(withBinary, ImagePath(id, ".json"),
                      JsonFile(ImageMetadata(id, mimeType, buffer)))

\* an image is generated and saved under a fresh identifier
SaveGeneratedImage(imageBytes, thrown) ==
  /\ nextUuid < MaxUuid
  /\ files' = SaveGeneratedImageFiles(files, imageBytes,
                                      VideoId(nextUuid + 1, 0), "image/png",
                                      thrown)
  /\ nextUuid' = nextUuid + 1
  /\ lastRead' = NoRead
  /\ UNCHANGED trace
  /\ CallUnchanged

\* getImageMetadata: the parsed sidecar, or None when it threw
GetImageMetadata(fs, id) ==
  LET metadataPath == ImagePath(id, ".json") IN
  IF Exists(fs, metadataPath) /\ fs[metadataPath].kind = "json"
    THEN fs[metadataPath].obj
    ELSE None

\* the result of the getImage tool
GetImageEnvelope(fs, id, includeFullData) ==
  LET found == GetImageMetadata(fs, id) IN
  IF ~IsSome(found)
    THEN ToolCatch(ErrorPrefix("getImage"),
                   << "Image metadata not found: ", id >>)
    ELSE
      LET metadata == found[1] IN
      [st |-> "returned", isError |-> FALSE,
       content |->
         (IF /\ CoerceNotFalse(includeFullData)
             /\ NonEmpty(metadata.filepath)
             /\ Exists(fs, metadata.filepath)
            THEN << ImageItem(metadata.mimeType,
                              Base64(fs[metadata.filepath].bytes)) >>
            ELSE << >>)
         \o << TextItem([success |-> TRUE, imageId |-> metadata.id,
                         filepath |-> metadata.filepath,
                         mimeType |-> metadata.mimeType,
                         size |-> metadata.size]) >>]

\* the getImage tool
GetImage(id, includeFullData) ==
  /\ lastRead' = [NoRead EXCEPT
                    !.op = "getImage", !.id = id,
                    !.full = CoerceNotFalse(includeFullData),
                    !.ok = IsSome(GetImageMetadata(files, id)),
                    !.metadata = GetImageMetadata(files, id),
                    !.envelope = GetImageEnvelope(files, id, includeFullData)]
  /\ UNCHANGED << files, nextUuid, trace, config, imageInput,
                  logger, transports >>
  /\ CallUnchanged

\* the sidecars in the image directory
ImageMetadataFiles(fs) ==
  { p \in ReadDir(fs, ImageStorageDir) : p[3] = ".json" }

\* each sidecar is read in its own try: one that fails gives null and is
\* filtered out
ListImages(fs) ==
  { fs[p].obj[1] :
      p \in { q \in ImageMetadataFiles(fs) : fs[q].kind = "json" } }

\* the result of the listGeneratedImages tool; fs.readdir can throw
ListGeneratedImagesEnvelope(fs, readdirThrew) ==
  IF readdirThrew THEN ToolCatch(ErrorPrefix("listGeneratedImages"), "ENOENT")
  ELSE [st |-> "returned", isError |-> FALSE,
        content |-> << TextItem([success |-> TRUE,
                                 count |-> Cardinality(ListImages(fs)),
                                 images |-> ListImages(fs)]) >>]

\* the listGeneratedImages tool
ListGeneratedImages(readdirThrew) ==
  /\ lastRead' = [NoRead EXCEPT
                    !.op = "listGeneratedImages", !.ok = ~readdirThrew,
                    !.msg = IF readdirThrew THEN "readdir" ELSE "",
                    !.list = IF readdirThrew THEN {} ELSE ListImages(files),
                    !.envelope =
                      ListGeneratedImagesEnvelope(files, readdirThrew)]
  /\ UNCHANGED << files, nextUuid, trace, config, imageInput,
                  logger, transports >>
  /\ CallUnchanged

\* the list callback of the images:// resources: a throw gives no resources
ListImageResources(readdirThrew) ==
  /\ lastRead' = [NoRead EXCEPT
                    !.op = "imageResourceTemplate.list", !.ok = TRUE,
                    !.msg = IF readdirThrew THEN "readdir" ELSE "",
                    !.list = IF readdirThrew THEN {}
                             ELSE { [uri |-> << "images://", m.id >>,
                                     mimeType |-> m.mimeType,
                                     filepath |-> m.filepath] :
                                    m \in ListImages(files) }]
  /\ UNCHANGED << files, nextUuid, trace, config, imageInput,
                  logger, transports >>
  /\ CallUnchanged

\* the JSON text an images:// read puts in its answer
ImageProjection(metadata) ==
  [id |-> metadata.id, mimeType |-> metadata.mimeType, size |-> metadata.size,
   filepath |-> metadata.filepath]

\* readImageResource: getImageMetadata, whose throw is thrown on; with the
\* flag set the binary is read, and a failure of that read falls back to the
\* JSON text
ReadImageResourceResult(fs, id) ==
  LET found == GetImageMetadata(fs, id)
      base == [NoRead EXCEPT !.op = "readImageResource", !.id = id,
                             !.full = ResourceIncludeFullData,
                             !.read = { ImagePath(id, ".json") }]
  IN
  IF ~IsSome(found) THEN [base EXCEPT !.msg = "Image metadata not found"]
  ELSE
    LET metadata == found[1]
        reads == ResourceIncludeFullData /\ NonEmpty(metadata.filepath)
        asText == << [uri |-> << "images://", id >>,
                      mimeType |-> "application/json", blob |-> None,
                      text |-> Some(ImageProjection(metadata))] >>
    IN [base EXCEPT
          !.ok = TRUE, !.metadata = found,
          !.read = IF reads THEN @ \cup { metadata.filepath } ELSE @,
          !.contents =
             IF reads /\ Exists(fs, metadata.filepath)
             THEN << [uri |-> << "images://", id >>,
                      mimeType |-> metadata.mimeType,
                      blob |-> Some(Base64(fs[metadata.filepath].bytes)),
                      text |-> None] >>
             ELSE asText]

\* a read of the resource images://{id}
ReadImageResource(id) ==
  /\ lastRead' = ReadImageResourceResult(files, id)
  /\ UNCHANGED << files, nextUuid, trace, logger, transports >>
  /\ CallUnchanged

----------------------------------------------------------------------------
(* The boolean-ish parameters of a tool call, one step per layer *)

\* the strings a caller sends in this model
SampleStrings ==
  { << "t", "r", "u", "e" >>, << "T", "R", "U", "E" >>,
    << "T", "r", "u", "e" >>, << "1" >>, << "0" >>, << >>,
    << "f", "a", "l", "s", "e" >>, << "1", "1" >> }

\* the forms a boolean-ish parameter arrives in
RawInputs ==
  { Undefined, Bool(TRUE), Bool(FALSE) } \cup { Str(s) : s \in SampleStrings }

\* the server validates the arguments: the schema fills in what was left out
SchemaFills ==
  /\ pc = "idle"
  /\ args' = SchemaArgs(tool, args)
  /\ pc' = "parsed"
  /\ UNCHANGED << files, nextUuid, tool, options, img, polls, tasks, outcome,
                  envelope, trace, lastRead, config, imageInput,
                  logger, transports >>

\* the tool function turns its arguments into booleans
CoerceArgs ==
  /\ pc \in { "idle", "parsed" }
  /\ options' = ToolOptions(tool, args)
  /\ pc' = "coerced"
  /\ UNCHANGED << files, nextUuid, tool, args, img, polls, tasks, outcome,
                  envelope, trace, lastRead, config, imageInput,
                  logger, transports >>

----------------------------------------------------------------------------
(* The specification *)

NoFiles == [p \in {} |-> GarbageFile]

Init ==
  /\ files = NoFiles
  /\ nextUuid = 0
  /\ tool = "none"
  /\ args = Args(Undefined, Undefined)
  /\ options = NoOptions
  /\ img = NoImage
  /\ pc = "idle"
  /\ polls = 0
  /\ tasks = NoTasks
  /\ outcome = Pending
  /\ envelope = NoEnvelope
  /\ trace = NewTrace
  /\ lastRead = NoRead
  /\ config = NoConfig
  /\ imageInput = NoInput
  /\ logger = NoLogger
  /\ transports = NoTransports

\* once the generation call has answered: a sidecar is damaged from outside,
\* or one of the reading tools is called
AfterCall ==
  /\ pc = "done"
  /\ \/ \E p \in DOMAIN files : CorruptSidecar(p)
     \/ \E id \in VideoIds, f \in IncludeFullDataFlags : GetImage(id, f)
     \/ \E w \in BOOLEAN : ListGeneratedImages(w)
     \/ \E w \in BOOLEAN : ListGeneratedVideos(w)

Next ==
  \/ \E t \in VideoTools, f \in IncludeFullDataFlags, d \in AutoDownloadFlags :
       StartVideoTool(t, SchemaArgs(t, Args(f, d)))
  \/ \E t \in ImageTools, f \in IncludeFullDataFlags, d \in AutoDownloadFlags :
       StartImageTool(t, SchemaArgs(t, Args(f, d)))
  \/ \E r \in ImageResponses : ImagesReturn(r)
  \/ ImagesThrow
  \/ ImageBinWritten
  \/ ImageMetaWritten
  \/ ImageWriteFailed
  \/ \E k \in ImageKinds : NormalizeReturns(k)
  \/ \E k \in ImageKinds : NormalizeThrows(k)
  \/ \E op \in Operations : RemoteCallReturns(op)
  \/ RemoteCallThrows
  \/ TimerFires
  \/ \E op \in Operations : StatusReturns(op)
  \/ StatusThrows
  \/ \E i \in 1..2, b \in Bytes : TaskFetched(i, b)
  \/ \E i \in 1..2 : TaskFetchFailed(i, "Failed to fetch video")
  \/ \E i \in 1..2 : TaskBinWritten(i)
  \/ \E i \in 1..2 : TaskMetaWritten(i)
  \/ \E i \in 1..2 : TaskWriteFailed(i)
  \/ ResultRead
  \/ ResultReadThrows
  \/ AfterCall

\* one tool call that generates, then the tools that read what is stored
Spec == Init /\ [][Next]_vars

\* the video store under any sequence of its operations
NextStore ==
  \/ \E b \in Bytes, w \in { "none", "binary", "metadata" } :
       SaveVideoBuffer(b, w)
  \/ \E u \in Uris, w \in BOOLEAN : SaveDeferred(u, w)
  \/ \E p \in DOMAIN files : DeleteBinary(p)
  \/ \E p \in DOMAIN files : CorruptSidecar(p)
  \/ \E id \in VideoIds, full \in BOOLEAN, w \in BOOLEAN : GetVideo(id, full, w)
  \/ \E w \in BOOLEAN : ListGeneratedVideos(w)
  \/ \E w \in BOOLEAN : ListVideoResources(w)

SpecStore == Init /\ [][NextStore]_vars

\* the image store under any sequence of its operations
NextImages ==
  \/ \E b \in ImageBytes, w \in { "none", "binary", "metadata" } :
       SaveGeneratedImage(Base64(b), w)
  \/ \E p \in DOMAIN files : DeleteBinary(p)
  \/ \E p \in DOMAIN files : CorruptSidecar(p)
  \/ \E id \in VideoIds, f \in IncludeFullDataFlags : GetImage(id, f)
  \/ \E w \in BOOLEAN : ListGeneratedImages(w)
  \/ \E w \in BOOLEAN : ListImageResources(w)

SpecImages == Init /\ [][NextImages]_vars

\* both stores under saves, loss of binaries, and the reads that ask for
\* metadata alone
NextResources ==
  \/ \E b \in Bytes, w \in { "none", "binary", "metadata" } :
       SaveVideoBuffer(b, w)
  \/ \E u \in Uris, w \in BOOLEAN : SaveDeferred(u, w)
  \/ \E b \in ImageBytes, w \in { "none", "binary", "metadata" } :
       SaveGeneratedImage(Base64(b), w)
  \/ \E p \in DOMAIN files : DeleteBinary(p)
  \/ \E id \in VideoIds : GetVideo(id, FALSE, FALSE)
  \/ \E id \in VideoIds : ReadVideoResource(id)
  \/ \E id \in VideoIds : ReadImageResource(id)

SpecResources == Init /\ [][NextResources]_vars

\* a call of a tool with any boolean-ish arguments, sent through the server's
\* schema or handed to the tool function as they are
InitCoerce ==
  /\ files = NoFiles
  /\ nextUuid = 0
  /\ tool \in CoercingTools
  /\ args \in [enhancePrompt : RawInputs, includeFullData : RawInputs,
               autoDownload : RawInputs]
  /\ options = NoOptions
  /\ img = NoImage
  /\ pc = "idle"
  /\ polls = 0
  /\ tasks = NoTasks
  /\ outcome = Pending
  /\ envelope = NoEnvelope
  /\ trace = NewTrace
  /\ lastRead = NoRead
  /\ config = NoConfig
  /\ imageInput = NoInput
  /\ logger = NoLogger
  /\ transports = NoTransports

NextCoerce ==
  \/ SchemaFills
  \/ CoerceArgs

SpecCoerce == InitCoerce /\ [][NextCoerce]_vars

\* several calls in flight, none of them followed to its answer
InitCalls ==
  /\ files = NoFiles
  /\ nextUuid = 0
  /\ tool = "none"
  /\ args = Args(Undefined, Undefined)
  /\ options = NoOptions
  /\ img = NoImage
  /\ pc = "calls"
  /\ polls = 0
  /\ tasks = NoTasks
  /\ outcome = Pending
  /\ envelope = NoEnvelope
  /\ trace = NewTrace
  /\ lastRead = NoRead
  /\ config = NoConfig
  /\ imageInput = NoInput
  /\ logger = NoLogger
  /\ transports = NoTransports

NextCalls ==
  \/ \E n \in 1..2 : \E l \in [1..n -> Descriptors], a \in BOOLEAN :
       FanOut(l, a)
  \/ \E i \in DOMAIN tasks, b \in Bytes : TaskFetched(i, b)
  \/ \E i \in DOMAIN tasks : TaskFetchFailed(i, "Failed to fetch video")
  \/ \E i \in DOMAIN tasks : TaskBinWritten(i)
  \/ \E i \in DOMAIN tasks : TaskMetaWritten(i)
  \/ \E i \in DOMAIN tasks : TaskWriteFailed(i)

SpecCalls == InitCalls /\ [][NextCalls]_vars

\* an optional value drawn from s
Optional(s) == { None } \cup { Some(v) : v \in s }

\* the requests for a video a caller sends, every parameter valid or left out
ValidRequests ==
  [prompt : { Some(1) }, videoPrompt : { None }, numberOfImages : { None },
   aspectRatio : Optional(AspectRatios),
   personGeneration : Optional(PersonGenerations),
   numberOfVideos : Optional({ 1, 2 }),
   durationSeconds : Optional({ MinDurationSeconds, MaxDurationSeconds }),
   enhancePrompt : { Undefined }]

InitConfig ==
  /\ files = NoFiles
  /\ nextUuid = 0
  /\ tool = "none"
  /\ args = Args(Undefined, Undefined)
  /\ options = NoOptions
  /\ img = NoImage
  /\ pc = "config"
  /\ polls = 0
  /\ tasks = NoTasks
  /\ outcome = Pending
  /\ envelope = NoEnvelope
  /\ trace = NewTrace
  /\ lastRead = NoRead
  /\ \E t \in GeneratingTools, a \in ValidRequests : config = Received(t, a)
  /\ imageInput = NoInput
  /\ logger = NoLogger
  /\ transports = NoTransports

NextConfig ==
  \/ SchemaParses
  \/ ToolCalledDirectly
  \/ ToolBuildsConfig
  \/ ImagesRequested
  \/ GatewaySends
  \/ ConfigSaved
  \/ ConfigDeferred

SpecConfig == InitConfig /\ [][NextConfig]_vars

\* the values of a numeric parameter around the bounds min and max
Around(min, max) == { min - 1, min, max, max + 1 }

\* the requests a client sends to tool t: each parameter the tool takes is
\* left out, at a bound, or one beyond it
RequestsTo(t) ==
  [prompt : Optional(Around(1, MaxPromptLength)),
   videoPrompt :
     IF t = "generateVideoFromGeneratedImage"
     THEN Optional({ 0, 1, MaxPromptLength + 1 }) ELSE { None },
   numberOfImages :
     IF t \in ImageTools THEN Optional(Around(1, MaxNumberOfImages))
     ELSE { None },
   aspectRatio : { None },
   personGeneration : { None },
   numberOfVideos :
     IF t \in GeneratingTools THEN Optional(Around(1, 2)) ELSE { None },
   durationSeconds :
     IF t \in GeneratingTools
     THEN Optional(Around(MinDurationSeconds, MaxDurationSeconds))
     ELSE { None },
   enhancePrompt : { Undefined }]

\* a request arrives at the server
InitValidate ==
  /\ files = NoFiles
  /\ nextUuid = 0
  /\ tool = "none"
  /\ args = Args(Undefined, Undefined)
  /\ options = NoOptions
  /\ img = NoImage
  /\ pc = "config"
  /\ polls = 0
  /\ tasks = NoTasks
  /\ outcome = Pending
  /\ envelope = NoEnvelope
  /\ trace = NewTrace
  /\ lastRead = NoRead
  /\ \E t \in GeneratingTools \cup ImageTools :
       \E a \in RequestsTo(t) : config = Received(t, a)
  /\ imageInput = NoInput
  /\ logger = NoLogger
  /\ transports = NoTransports

NextValidate ==
  \/ SchemaParses
  \/ ToolBuildsConfig
  \/ ImagesRequested
  \/ GatewaySends

SpecValidate == InitValidate /\ [][NextValidate]_vars

InitNormalize ==
  /\ files = NoFiles
  /\ nextUuid = 0
  /\ tool = "none"
  /\ args = Args(Undefined, Undefined)
  /\ options = NoOptions
  /\ img = NoImage
  /\ pc = "normalizer"
  /\ polls = 0
  /\ tasks = NoTasks
  /\ outcome = Pending
  /\ envelope = NoEnvelope
  /\ trace = NewTrace
  /\ lastRead = NoRead
  /\ config = NoConfig
  /\ \E image \in ImageReferences, mimeType \in MimeTypeHints :
       imageInput = Given(image, mimeType)
  /\ logger = NoLogger
  /\ transports = NoTransports

NextNormalize ==
  \/ \E ok \in BOOLEAN, contentType \in ContentTypes, buffer \in ImageBytes :
       FetchReturns(ok, contentType, buffer)
  \/ FetchRejects
  \/ \E buffer \in ImageBytes : ReadFileReturns(buffer)
  \/ ReadFileThrows
  \/ PassThrough

SpecNormalize == InitNormalize /\ [][NextNormalize]_vars

----------------------------------------------------------------------------
(* Properties of the generation call (under Spec) *)

\* the result list of the completed operation handle the call received
ResultList == IF IsSome(trace.op.videos) THEN trace.op.videos[1] ELSE << >>

\* the paths of the video store the call wrote
WrittenToStore == { p \in trace.written : p[1] = StorageDir }

\* the tasks of the fan-out that saved their video: binary and sidecar
Persisted ==
  { i \in DOMAIN tasks : tasks[i].st = "fulfilled" /\ IsSome(tasks[i].value) }

\* the tasks whose fetch came back with a status that is not ok
FetchFailed ==
  { i \in DOMAIN tasks :
      tasks[i].st = "rejected" /\ tasks[i].err = "Failed to fetch video" }

\* the fan-out is over: one video is saved, the fetch of another failed
PartialFailure ==
  /\ trace.op.done
  /\ options.autoDownload
  /\ Len(tasks) >= 2
  /\ AllSettled(tasks)
  /\ Persisted # {}
  /\ FetchFailed # {}

\* C1: with autoDownload on and two or more result descriptors, when one
\* descriptor is downloaded and saved and the fetch of another comes back with
\* a status that is not ok, the call as a whole succeeds, and exactly the
\* downloaded descriptors are stored.
C1_PartialFailureSucceeds ==
  PartialFailure =>
    /\ outcome.st = "ok"
    /\ \A i \in DOMAIN tasks :
         (i \in Persisted) <=> (MetadataPath(tasks[i].id) \in trace.written)

\* the completed operation gave a list, not empty, with no uri in it
NoDescriptorHasUri ==
  /\ trace.op.done
  /\ Len(ResultList) > 0
  /\ \A i \in DOMAIN ResultList : ~HasUri(ResultList[i])

\* C2: when the completed operation gives a non-empty result list in which no
\* descriptor has a uri, the call fails with 'Failed to process any videos',
\* it starts no fetch, and it writes no binary and no sidecar to the store.
C2_TotalFailure ==
  NoDescriptorHasUri =>
    /\ pc = "done"
    /\ outcome.st = "error"
    /\ outcome.msg = "Failed to process any videos"
    /\ trace.fetches = 0
    /\ WrittenToStore = {}

\* a call that got two descriptors without a uri has failed
C2_Witness ==
  /\ NoDescriptorHasUri
  /\ Len(ResultList) = 2
  /\ outcome.msg = "Failed to process any videos"
  /\ envelope.isError

\* the completed operation gave no result list, or an empty one
NoDescriptors == trace.op.done /\ Len(ResultList) = 0

\* C3: when the operation completes with an absent or an empty result list,
\* the call fails with 'No videos generated in the response', without a
\* download and without a file written to the store.
C3_NoVideosGenerated ==
  NoDescriptors =>
    /\ pc = "done"
    /\ outcome.st = "error"
    /\ outcome.msg = "No videos generated in the response"
    /\ tasks = NoTasks
    /\ trace.fetches = 0
    /\ WrittenToStore = {}

\* a call failed on an empty list that came after a round of polling
C3_Witness ==
  /\ NoDescriptors
  /\ IsSome(trace.op.videos)
  /\ polls > 0
  /\ outcome.msg = "No videos generated in the response"

\* the sidecar of task i, as it is on disk
Sidecar(i) == files[MetadataPath(tasks[i].id)].obj[1]

\* filepath is "", size is 0 and videoUrl is a non-empty string
IsDeferred(m) ==
  /\ m.filepath = << >>
  /\ m.size = 0
  /\ IsSome(m.videoUrl)
  /\ NonEmpty(m.videoUrl[1])

\* the call succeeded with autoDownload off
DeferredSuccess ==
  /\ outcome.st = "ok"
  /\ ~options.autoDownload

\* C4: a call that succeeds with autoDownload off fetches no video and creates
\* no binary; for every descriptor with a uri it has written a sidecar with
\* filepath "", size 0 and a non-empty videoUrl; the metadata it returns has
\* the same three values.
C4_DeferredDownload ==
  DeferredSuccess =>
    /\ trace.fetches = 0
    /\ \A p \in WrittenToStore : p[3] = ".json"
    /\ \A i \in DOMAIN ResultList :
         HasUri(ResultList[i]) =>
           /\ MetadataPath(tasks[i].id) \in trace.written
           /\ MetadataPath(tasks[i].id) \notin trace.damaged =>
                IsDeferred(Sidecar(i))
    /\ IsDeferred(outcome.meta[1])
    /\ (MetadataPath(outcome.meta[1].id) \notin trace.damaged =>
          files[MetadataPath(outcome.meta[1].id)].obj[1] = outcome.meta[1])

\* a deferred call over two descriptors with a uri has succeeded
C4_Witness ==
  /\ DeferredSuccess
  /\ Len(ResultList) = 2
  /\ \A i \in DOMAIN ResultList : HasUri(ResultList[i])
  /\ trace.damaged = {}
  /\ Cardinality(WrittenToStore) = 2

----------------------------------------------------------------------------
(* Properties of the video store (under SpecStore) *)

\* the sidecars of the video store that parse
ParsableSidecars == { p \in MetadataFiles(files) : files[p].kind = "json" }

\* C5: in every state the store reaches by saves (downloaded or deferred),
\* getVideo (with or without the data) and listings, the sidecar of every
\* video saved with deferred download keeps filepath empty while its videoUrl
\* is present: exactly one of the two holds.
C5_DeferredExactlyOne ==
  \A p \in ParsableSidecars :
    IsSome(files[p].obj[1].videoUrl) => ~NonEmpty(files[p].obj[1].filepath)

\* the last operation was getVideo
ReadVideo == lastRead.op = "getVideo"

\* the sidecar of the video last asked for, None when missing or unparsable
ReadSidecar == GetMetadata(files, lastRead.id)

\* the video last asked for has a sidecar that names a binary that is gone
BinaryGone ==
  /\ IsSome(ReadSidecar)
  /\ NonEmpty(ReadSidecar[1].filepath)
  /\ ~Exists(files, ReadSidecar[1].filepath)

NotFound(r) == ~r.ok /\ r.msg = "Video not found"

\* C6: for a video whose sidecar exists and whose binary is gone, getVideo with
\* includeFullData fails with not-found and getVideo without it succeeds and
\* returns the metadata; for an id whose sidecar is missing or does not parse,
\* both forms fail with not-found.
C6_MetadataWithoutBinary ==
  ReadVideo =>
    /\ (BinaryGone /\ lastRead.full) => NotFound(lastRead)
    /\ (BinaryGone /\ ~lastRead.full) =>
         lastRead.ok /\ lastRead.metadata = ReadSidecar
    /\ ~IsSome(ReadSidecar) => NotFound(lastRead)

\* getVideo with includeFullData was called on a saved video whose binary was
\* deleted
C6_Witness ==
  /\ ReadVideo
  /\ lastRead.full
  /\ BinaryGone
  /\ ReadSidecar[1].filepath \in trace.damaged
  /\ NotFound(lastRead)

\* the last operation listed the videos, and fs.readdir did not throw
ListedVideos ==
  /\ lastRead.op \in { "listGeneratedVideos", "videoResourceTemplate.list" }
  /\ lastRead.msg # "readdir"

\* C7: when some of the sidecars in the directory fail to parse, listVideos
\* returns the metadata of exactly the ones that parse: it does not fail and
\* it does not return an empty list because of the others.
C7_ListingSkipsCorrupt ==
  ListedVideos =>
    /\ lastRead.ok
    /\ Cardinality(lastRead.list) = Cardinality(ParsableSidecars)
    /\ lastRead.op = "listGeneratedVideos" =>
         lastRead.list = { files[p].obj[1] : p \in ParsableSidecars }

\* the saves whose two files nobody touched since
Untouched ==
  { sv \in trace.saved :
      /\ VideoPath(sv[1], ".mp4") \notin trace.damaged
      /\ MetadataPath(sv[1]) \notin trace.damaged }

\* C8: after saveVideoBuffer stored the bytes b under id i, and as long as
\* nobody removed or overwrote the files of i, getVideo(i) with
\* includeFullData returns data equal to b, byte for byte, and metadata whose
\* size is the length of b.
C8_RoundTrip ==
  \A sv \in Untouched :
    (ReadVideo /\ lastRead.full /\ lastRead.id = sv[1]) =>
      /\ lastRead.ok
      /\ lastRead.data = Some(sv[2])
      /\ lastRead.metadata[1].size = Len(sv[2])

\* a saved video of two bytes was read back whole
C8_Witness ==
  \E sv \in Untouched :
    /\ Len(sv[2]) = 2
    /\ ReadVideo
    /\ lastRead.full
    /\ lastRead.id = sv[1]
    /\ lastRead.ok

----------------------------------------------------------------------------
(* Properties of the tool layer (under Spec) *)

\* a result that carries the error flag and one text message
ErrorResult(e) ==
  /\ e.st = "returned"
  /\ e.isError
  /\ Len(e.content) = 1
  /\ e.content[1].type = "text"

\* a result without the error flag
SuccessResult(e) == e.st = "returned" /\ ~e.isError

\* the tool that generates has answered
CallEnded == pc = "done"

\* something failed inside the tool that generates: the gateway call, or the
\* generation or the saving of the image before it
CallFailed ==
  \/ outcome.st = "error"
  \/ tool \in ImageTools /\ ImagePath(img.id, ".json") \notin trace.written

\* something failed inside the reading tool last called: the lookup of the
\* image, the listing of the directory, or the parsing of a video sidecar
ReadFailed ==
  \/ lastRead.op = "getImage" /\ ~IsSome(GetImageMetadata(files, lastRead.id))
  \/ lastRead.op = "listGeneratedImages" /\ lastRead.msg = "readdir"
  \/ lastRead.op = "listGeneratedVideos" /\ lastRead.msg # "readdir"
       /\ ParsableSidecars # MetadataFiles(files)

----------------------------------------------------------------------------
(* Properties of the boolean-ish parameters (under SpecCoerce) *)

\* the strings that stand for true: "true" in any case, and "1"
TrueStrings ==
  { << a, b, c, d >> :
      a \in { "t", "T" }, b \in { "r", "R" }, c \in { "u", "U" },
      d \in { "e", "E" } }
    \cup { << "1" >> }

\* the boolean-ish parameters tool t has
Params(t) ==
  IF t \in ImageOnlyTools THEN { "includeFullData" }
  ELSE { "enhancePrompt", "includeFullData", "autoDownload" }

\* C10: in every tool, the effective value of enhancePrompt, includeFullData
\* and autoDownload is: for a string, true exactly when its lowercase is "true"
\* or it is "1"; for a boolean, the boolean; the default (true for
\* autoDownload) only when the field is absent, never when it is present and
\* falsy (false, "false", "0", "").
C10_Coercion ==
  pc = "coerced" =>
    \A f \in Params(tool) :
      /\ args[f].t = "string" => (options[f] <=> args[f].s \in TrueStrings)
      /\ args[f].t = "boolean" => options[f] = args[f].b
      /\ (args[f].t = "undefined" /\ f = "autoDownload") => options[f]

\* the compound tool was called with autoDownload "" and includeFullData
\* "TRUE": the first is off, the second is on
C10_Witness ==
  /\ pc = "coerced"
  /\ tool = "generateVideoFromGeneratedImage"
  /\ args.autoDownload = Str(<< >>)
  /\ ~options.autoDownload
  /\ args.includeFullData = Str(<< "T", "R", "U", "E" >>)
  /\ options.includeFullData

----------------------------------------------------------------------------
(* More properties of the generation call (under Spec) *)

\* the descriptors of the result list that were not skipped
NotSkipped == { i \in DOMAIN ResultList : HasUri(ResultList[i]) }

\* the lowest index among them
FirstNotSkipped == CHOOSE i \in NotSkipped : \A j \in NotSkipped : i <= j

\* C11: a call that succeeds returns the metadata of the first video saved or
\* deferred, the one of the lowest-index descriptor that was not skipped; the
\* videos of the other descriptors are stored but not returned.
C11_PrimaryResult ==
  outcome.st = "ok" =>
    /\ NotSkipped # {}
    /\ outcome.meta[1] = tasks[FirstNotSkipped].value[1]
    /\ outcome.meta[1].id = tasks[FirstNotSkipped].id
    /\ \A i \in NotSkipped : MetadataPath(tasks[i].id) \in trace.written

\* two videos were downloaded and saved; the call returned the first
C11_Witness ==
  /\ outcome.st = "ok"
  /\ options.autoDownload
  /\ Cardinality(NotSkipped) = 2
  /\ outcome.meta[1].id = tasks[1].id
  /\ VideoPath(tasks[2].id, ".mp4") \in trace.written

\* the tool in flight is the compound one
Compound == tool = "generateVideoFromGeneratedImage"

\* the image the tool holds has both its files written
ImagePersisted ==
  /\ NonEmpty(img.data)
  /\ { ImagePath(img.id, ImageExtension("image/png")),
       ImagePath(img.id, ".json") } \subseteq trace.written

\* generateFromImage has been entered
VideoCallMade ==
  \/ pc \in { "normalizing", "calling", "waiting", "refetching" }
  \/ imageInput.stage # "none"
  \/ outcome # Pending
  \/ tasks # NoTasks

\* the video generation starts only once the image is there and persisted
VideoAfterImage == Compound /\ VideoCallMade => ImagePersisted

\* the video generation is fed the bytes the tool holds in memory
FedFromMemory ==
  Compound /\ imageInput.stage # "none" =>
    /\ imageInput.stage = "returned"
    /\ imageInput.branch = "inline"
    /\ imageInput.imageBytes = Base64Text(img.data)
    /\ imageInput.reads = 0
    /\ imageInput.fetches = 0

\* C18: generateVideoFromGeneratedImage invokes the video generation only
\* after the image generation returned image bytes and the image was
\* persisted; the bytes fed to it are the in-memory bytes of the generated
\* image, neither read back from disk nor taken by the normalizer for a URL
\* or a path; when the image generation fails or returns no bytes, there is no
\* video generation call.
C18_CompoundOrdering == VideoAfterImage /\ FedFromMemory

----------------------------------------------------------------------------
(* Properties of concurrent calls (under SpecCalls) *)

\* the tasks that drew an identifier
Identified == { i \in DOMAIN tasks : tasks[i].id # << >> }

\* no two tasks, of one fan-out or of two calls, have the same identifier
DistinctIds ==
  \A i, j \in Identified : i # j => tasks[i].id # tasks[j].id

\* a fan-out gives its descriptor at index 0 a plain identifier and the one at
\* index k > 0 an identifier with the suffix _k
IdsByIndex ==
  \A n \in 1..2 : \A l \in [1..n -> Descriptors], a \in BOOLEAN :
    FanOut(l, a) =>
      \A i \in 1..Len(l) :
        HasUri(l[i]) =>
          LET id == tasks'[Len(tasks) + i].id IN
          IF i = 1 THEN Len(id) = 1
          ELSE Len(id) = 3 /\ id[2] = "_" /\ id[3] = i - 1

\* a save writes files that no save wrote before
DisjointWrites ==
  \A i \in DOMAIN tasks :
    /\ TaskBinWritten(i) => VideoPath(tasks[i].id, ".mp4") \notin trace.written
    /\ TaskMetaWritten(i) => MetadataPath(tasks[i].id) \notin trace.written

\* C12: in any interleaving of concurrent generation calls, and over all the
\* descriptors of one fan-out, every video gets an identifier distinct from
\* every other one (plain at index 0, suffixed _i at index i > 0), so no two
\* saves write the same binary or the same sidecar.
C12_UniqueIds == []DistinctIds /\ [][IdsByIndex /\ DisjointWrites]_vars

\* the videos of two calls, one of them with two descriptors, are all on disk
C12_Witness ==
  /\ pc = "calls"
  /\ Cardinality(Identified) = 3
  /\ Cardinality({ i \in Identified : Len(tasks[i].id) = 1 }) = 2
  /\ \A i \in Identified : MetadataPath(tasks[i].id) \in trace.written

----------------------------------------------------------------------------
(* Properties of the configuration of a call (under SpecConfig) *)

\* the metadata of the video has been recorded, on either path
Recorded == config.stage \in { "saved", "deferred" }

\* the caller's value, or the default where the caller gave none
Effective(given) ==
  [aspectRatio |->
     IF IsSome(given.aspectRatio) THEN given.aspectRatio[1] ELSE "16:9",
   personGeneration |->
     IF IsSome(given.personGeneration) THEN given.personGeneration[1]
     ELSE "dont_allow",
   durationSeconds |->
     IF IsSome(given.durationSeconds) THEN given.durationSeconds[1] ELSE 5]

\* C13: for every successful video generation, downloaded or deferred, the
\* config recorded in the metadata is the caller's configuration with the
\* defaults resolved (aspectRatio '16:9', personGeneration 'dont_allow',
\* durationSeconds 5), and none of its fields is unset.
C13_ConfigSnapshot ==
  Recorded =>
    /\ config.metadata = Some(Effective(config.given))
    /\ config.metadata[1].aspectRatio \in AspectRatios
    /\ config.metadata[1].personGeneration \in PersonGenerations
    /\ config.metadata[1].durationSeconds
         \in MinDurationSeconds..MaxDurationSeconds

\* a deferred video of a call that left the aspect ratio out and asked for
\* eight seconds
C13_Witness ==
  /\ config.stage = "deferred"
  /\ config.given.aspectRatio = None
  /\ config.given.personGeneration = None
  /\ config.given.durationSeconds = Some(MaxDurationSeconds)
  /\ ~config.validated

\* the request went out to the remote service
Sent == IsSome(config.generateConfig)

\* C16: allow_adult is valid for generation from text alone: no generation
\* from an image (generateVideoFromImage, generateVideoFromGeneratedImage)
\* sends personGeneration = allow_adult to the remote service or records it
\* in the stored metadata.
C16_NoAdultFromImage ==
  config.stage # "none" /\ config.tool \in ImageToVideoTools =>
    /\ Sent => config.generateConfig[1].personGeneration # Some("allow_adult")
    /\ Recorded => config.metadata[1].personGeneration # "allow_adult"

----------------------------------------------------------------------------
(* Properties of the image normalizer (under SpecNormalize) *)

\* the text is made of base64 characters alone
IsBase64Text(image) ==
  /\ Len(image) > 0
  /\ \A i \in 1..Len(image) :
       \E d \in 1..Len(Base64Alphabet) : image[i] = Base64Alphabet[d]

\* the normalizer is through with the reference
Normalized == imageInput.stage \in { "returned", "thrown" }

\* C14: the normalizer takes a reference for a URL iff it starts with http://
\* or https://, else for a file path iff it looks like an absolute path, else
\* for inline data; a reference that is encoded inline data, any base64 text
\* included, is returned unchanged as the image bytes, with no fetch and no
\* file read.
C14_InlinePassThrough ==
  /\ Normalized =>
       (imageInput.branch = "url" <=>
          \/ StartsWith(imageInput.image, << "h", "t", "t", "p", ":", "/", "/" >>)
          \/ StartsWith(imageInput.image,
                        << "h", "t", "t", "p", "s", ":", "/", "/" >>))
  /\ Normalized /\ IsBase64Text(imageInput.image) =>
       /\ imageInput.stage = "returned"
       /\ imageInput.branch = "inline"
       /\ imageInput.imageBytes = imageInput.image
       /\ imageInput.fetches = 0
       /\ imageInput.reads = 0

\* the normalizer returned image bytes and a MIME type
Returned == imageInput.stage = "returned"

\* the caller gave a MIME type hint
HintGiven == IsSome(imageInput.mimeType) /\ imageInput.mimeType[1] # ""

\* the extension of the reference, in lower case
Extension == ToLowerCase(ExtName(imageInput.image))

\* the fixed mapping from extensions to MIME types
MappedMimeTypes ==
  { << << ".", "p", "n", "g" >>, "image/png" >>,
    << << ".", "j", "p", "g" >>, "image/jpeg" >>,
    << << ".", "j", "p", "e", "g" >>, "image/jpeg" >>,
    << << ".", "g", "i", "f" >>, "image/gif" >>,
    << << ".", "w", "e", "b", "p" >>, "image/webp" >> }

\* the extension is one the mapping knows
Mapped == \E m \in MappedMimeTypes : m[1] = Extension

\* the MIME type the mapping gives the extension
MappedMimeType == (CHOOSE m \in MappedMimeTypes : m[1] = Extension)[2]

\* the MIME type of a fetched image: the declared content type, else the
\* hint, else a generic image type
UrlMimeResolved ==
  Returned /\ imageInput.branch = "url" =>
    imageInput.resultMimeType =
      IF IsSome(imageInput.contentType) /\ imageInput.contentType[1] # ""
      THEN imageInput.contentType[1]
      ELSE IF HintGiven THEN imageInput.mimeType[1] ELSE "image/jpeg"

\* C15 as stated: for a file path the MIME type follows from the extension by
\* the fixed mapping, and only for another extension from the hint, then from
\* a generic default; for a URL from the declared content type, else the hint,
\* else a generic image type; it is never empty.
C15_ExtensionBeforeHint ==
  /\ Returned => imageInput.resultMimeType # ""
  /\ UrlMimeResolved
  /\ Returned /\ imageInput.branch = "path" =>
       imageInput.resultMimeType =
         IF Mapped THEN MappedMimeType
         ELSE IF HintGiven THEN imageInput.mimeType[1] ELSE "image/jpeg"

\* C15: for a file path the MIME type is the caller's hint when there is one,
\* else what the fixed mapping gives the extension (.png, .jpg/.jpeg, .gif,
\* .webp), else a generic default; for a URL it is the declared content type,
\* else the hint, else a generic image type; it is never empty.
C15_MimeResolution ==
  /\ Returned => imageInput.resultMimeType # ""
  /\ UrlMimeResolved
  /\ Returned /\ imageInput.branch = "path" =>
       imageInput.resultMimeType =
         IF HintGiven THEN imageInput.mimeType[1]
         ELSE IF Mapped THEN MappedMimeType ELSE "image/jpeg"

\* a file with a mapped extension was read for a caller who gave a hint
C15_Witness ==
  /\ Returned
  /\ imageInput.branch = "path"
  /\ Mapped
  /\ HintGiven
  /\ imageInput.resultMimeType = imageInput.mimeType[1]

----------------------------------------------------------------------------
(* Properties of the reads that ask for metadata alone (under SpecResources) *)

\* the last operation was a read of a resource
ResourceRead == lastRead.op \in { "readVideoResource", "readImageResource" }

\* the last operation was a read that asks for metadata alone
MetadataOnlyRead ==
  ResourceRead \/ (lastRead.op = "getVideo" /\ ~lastRead.full)

\* the sidecar the last read asked for
AskedSidecar ==
  IF lastRead.op = "readImageResource" THEN ImagePath(lastRead.id, ".json")
  ELSE MetadataPath(lastRead.id)

\* the last read handed no file but the sidecar to fs.readFile
NoBinaryRead == lastRead.read \subseteq { AskedSidecar }

\* the last read answered with the metadata and nothing of the binary
MetadataAlone ==
  /\ lastRead.data = None
  /\ lastRead.videoData = None
  /\ lastRead.metadata = files[AskedSidecar].obj
  /\ ResourceRead =>
       /\ Len(lastRead.contents) = 1
       /\ lastRead.contents[1].mimeType = "application/json"
       /\ lastRead.contents[1].blob = None
       /\ lastRead.contents[1].text # None
       /\ lastRead.contents[1].text[1].id = lastRead.id

\* the step is a read that asks for metadata alone
MetadataOnlyStep ==
  \E id \in VideoIds :
    GetVideo(id, FALSE, FALSE) \/ ReadVideoResource(id) \/ ReadImageResource(id)

\* C17: getVideo(id, includeFullData = false) and every read of videos://{id}
\* or images://{id} answer with a metadata-only JSON projection and never read
\* the binary of the artifact (nor change any file); a resource read for an id
\* that has no metadata fails rather than answering with a default.
C17_MetadataOnlyReads ==
  /\ [](MetadataOnlyRead =>
          /\ NoBinaryRead
          /\ lastRead.ok => MetadataAlone
          /\ ~Exists(files, AskedSidecar) =>
               ~lastRead.ok /\ lastRead.contents = << >>)
  /\ [][MetadataOnlyStep => files' = files]_vars

\* a videos:// read of a stored video whose binary exists answered with the
\* JSON text
C17_Witness ==
  /\ lastRead.op = "readVideoResource"
  /\ lastRead.ok
  /\ NonEmpty(lastRead.metadata[1].filepath)
  /\ Exists(files, lastRead.metadata[1].filepath)
  /\ Len(lastRead.contents) = 1

----------------------------------------------------------------------------
(* Properties of the image store (under SpecImages) *)

\* the last operation asked getImage for the image data of a stored image
\* whose binary is gone
ImageBinaryGone ==
  /\ lastRead.op = "getImage"
  /\ lastRead.full
  /\ IsSome(lastRead.metadata)
  /\ ~Exists(files, lastRead.metadata[1].filepath)

\* C19: getImage(id, includeFullData = true) for an image whose sidecar exists
\* and whose binary is absent reports a not-found failure (an error envelope),
\* not a success envelope without the image data.
C19_MissingImageBinary ==
  ImageBinaryGone =>
    /\ lastRead.envelope.st = "returned"
    /\ lastRead.envelope.isError

----------------------------------------------------------------------------
(* Properties of the validation of a request (under SpecValidate) *)

\* the parameter was left out or lies in lo..hi
AbsentOrWithin(x, lo, hi) == x = None \/ (x[1] >= lo /\ x[1] <= hi)

\* every parameter of the request lies in the bounds of the tool it is for
WithinBounds(t, given) ==
  /\ AbsentOrWithin(given.durationSeconds, 5, 8)
  /\ AbsentOrWithin(given.numberOfVideos, 1, 2)
  /\ AbsentOrWithin(given.numberOfImages, 1, 4)
  /\ AbsentOrWithin(given.prompt, 1, 1000)
  /\ AbsentOrWithin(given.videoPrompt, 1, 1000)
  /\ t # "generateVideoFromImage" => given.prompt # None

\* the request got as far as the tool function or the remote service
ReachedGateway ==
  \/ config.stage \in { "built", "imagined", "sent" }
  \/ config.config # None
  \/ config.imageConfig # None
  \/ config.generateConfig # None

\* C20: the schemas reject durationSeconds 4 and 9 and accept 5 and 8,
\* accept numberOfVideos in {1,2} only, numberOfImages in 1..4 only and a
\* prompt of length 1..1000 only; a rejected request never reaches the
\* gateway.
C20_ValidationBounds ==
  /\ [](config.stage \notin { "none", "received" } =>
          /\ config.stage = "rejected" <=>
               ~WithinBounds(config.tool, config.given)
          /\ config.stage = "rejected" => ~ReachedGateway
          /\ ReachedGateway => config.validated)
  /\ [][config.stage = "rejected" => config' = config]_vars

\* a request at the upper bounds went out to the remote service
C20_Witness ==
  /\ config.stage = "sent"
  /\ config.validated
  /\ config.given.durationSeconds = Some(8)
  /\ config.given.numberOfVideos = Some(2)
  /\ config.given.numberOfImages = Some(4)
  /\ config.given.prompt = Some(1000)

----------------------------------------------------------------------------
(* The logger (utils/logger.ts), initialised from LOG_LEVEL (config.ts) *)

\* how many lines the console keeps in a run
MaxConsole == 3

\* the values the environment schema admits for LOG_LEVEL
LogLevel == { "verbose", "debug", "info", "warn", "error", "fatal", "none" }

LOG_LEVEL_PRIORITY ==
  [VERBOSE |-> 0, DEBUG |-> 1, INFO |-> 2, WARN |-> 3, ERROR |-> 4,
   FATAL |-> 5, NONE |-> 6]

\* logLevel.toUpperCase() on the values of LogLevel
LevelToUpperCase(logLevel) ==
  [verbose |-> "VERBOSE", debug |-> "DEBUG", info |-> "INFO", warn |-> "WARN",
   error |-> "ERROR", fatal |-> "FATAL", none |-> "NONE"][logLevel]

\* the levels of the six logging methods
MessageLevels == { "VERBOSE", "DEBUG", "INFO", "WARN", "ERROR", "FATAL" }

\* LOG_LEVEL_PRIORITY[level] || d: a missing key and the priority 0 are both
\* falsy and give d
PriorityOr(level, d) ==
  IF level \notin DOMAIN LOG_LEVEL_PRIORITY THEN d
  ELSE IF LOG_LEVEL_PRIORITY[level] = 0 THEN d
  ELSE LOG_LEVEL_PRIORITY[level]

\* shouldLog(level) under this.currentLogLevel
ShouldLog(currentLogLevel, level) ==
  IF currentLogLevel = "NONE" THEN FALSE
  ELSE LET currentPriority == PriorityOr(currentLogLevel, 5)
           levelPriority == PriorityOr(level, 0)
       IN levelPriority >= currentPriority

\* new Logger(): the level is 'FATAL' until initialize is called
NewLogger ==
  [stage |-> "constructed", currentLogLevel |-> "FATAL", last |-> None,
   console |-> << >>]

\* log.initialize(config.LOG_LEVEL), once, when the configuration is loaded
Initialize(logLevel) ==
  /\ logger.stage = "constructed"
  /\ logger' = [logger EXCEPT !.stage = "initialized",
                              !.currentLogLevel = LevelToUpperCase(logLevel)]
  /\ UNCHANGED << files, nextUuid, tool, args, options, img, pc, polls, tasks,
                  outcome, envelope, trace, lastRead, config, imageInput,
                  transports >>

\* log.verbose, log.debug, ..., log.fatal: console.error when shouldLog
LogWithLevel(level) ==
  /\ logger.stage \in { "constructed", "initialized" }
  /\ Len(logger.console) < MaxConsole
  /\ logger' =
       [logger EXCEPT
          !.last = Some([level |-> level,
                         currentLogLevel |-> logger.currentLogLevel,
                         emitted |-> ShouldLog(logger.currentLogLevel, level)]),
          !.console = IF ShouldLog(logger.currentLogLevel, level)
                      THEN Append(@, level) ELSE @]
  /\ UNCHANGED << files, nextUuid, tool, args, options, img, pc, polls, tasks,
                  outcome, envelope, trace, lastRead, config, imageInput,
                  transports >>

InitLogger ==
  /\ files = NoFiles
  /\ nextUuid = 0
  /\ tool = "none"
  /\ args = Args(Undefined, Undefined)
  /\ options = NoOptions
  /\ img = NoImage
  /\ pc = "logger"
  /\ polls = 0
  /\ tasks = NoTasks
  /\ outcome = Pending
  /\ envelope = NoEnvelope
  /\ trace = NewTrace
  /\ lastRead = NoRead
  /\ config = NoConfig
  /\ imageInput = NoInput
  /\ logger = NewLogger
  /\ transports = NoTransports

NextLogger ==
  \/ \E logLevel \in LogLevel : Initialize(logLevel)
  \/ \E level \in MessageLevels : LogWithLevel(level)

SpecLogger == InitLogger /\ [][NextLogger]_vars

----------------------------------------------------------------------------
(* C21 *)

\* the last logging call, when there was one
Logged == logger.stage # "none" /\ IsSome(logger.last)

\* C21: a message is written to the console exactly when the configured
\* level is not none and the priority of the message is at least the
\* priority of the configured level, in the order verbose < debug < info <
\* warn < error < fatal < none; so under verbose every message is written.
C21_LogThreshold ==
  Logged =>
    LET last == logger.last[1] IN
    last.emitted <=>
      /\ last.currentLogLevel # "NONE"
      /\ LOG_LEVEL_PRIORITY[last.level]
           >= LOG_LEVEL_PRIORITY[last.currentLogLevel]

----------------------------------------------------------------------------
(* C22 *)

\* where a gateway call stands before generateVideos is invoked, while it
\* polls, and from the first answer of the remote on
BeforeRemote == { "idle", "normalizing" }
Polling == { "waiting", "refetching" }
AfterRemote == { "waiting", "refetching", "awaitAll", "readingResult", "done" }

\* a handle with done = true was received
DoneObserved == trace.op.done

\* the files the gateway wrote into the video store
StoreWrites == { p \in trace.written : p[1] = StorageDir }

\* generateVideos is invoked from the start of the call only, and once it
\* has answered it is not invoked again
RemoteOnce ==
  /\ pc' = "calling" /\ pc # "calling" => pc \in BeforeRemote
  /\ pc \in AfterRemote => pc' \in AfterRemote

\* a re-fetch follows one wait, a wait follows a handle that is not done,
\* and the re-fetches are counted by the waits
WaitThenRefetch ==
  /\ pc' = "refetching" /\ pc # "refetching" => pc = "waiting"
  /\ pc' = "waiting" /\ pc # "waiting" => pc \in { "calling", "refetching" }
  /\ polls' # polls =>
       pc = "waiting" /\ pc' = "refetching" /\ polls' = polls + 1

\* until a done handle was seen: no task, no download, no write, no result
NothingBeforeDone ==
  ~DoneObserved =>
    /\ tasks = NoTasks
    /\ trace.fetches = 0
    /\ StoreWrites = {}
    /\ outcome.st # "ok"

\* C22: within one generation call the remote generation is invoked once and
\* never retried; the status is re-fetched only while no done handle was
\* received, each re-fetch after one wait; no download, store write or
\* result comes before a handle with done = true.
C22_PollingOrder ==
  /\ [][RemoteOnce /\ WaitThenRefetch]_vars
  /\ [](pc \in Polling => ~DoneObserved)
  /\ []NothingBeforeDone

\* a call that polled once, then downloaded, wrote and returned
C22_Witness ==
  /\ pc = "done"
  /\ polls = 1
  /\ DoneObserved
  /\ trace.fetches > 0
  /\ StoreWrites # {}
  /\ outcome.st = "ok"

----------------------------------------------------------------------------
(* C23 *)

\* the steps of one tool call, without the reads that may follow it
NextFair ==
  \/ \E t \in VideoTools, f \in IncludeFullDataFlags, d \in AutoDownloadFlags :
       StartVideoTool(t, SchemaArgs(t, Args(f, d)))
  \/ \E t \in ImageTools, f \in IncludeFullDataFlags, d \in AutoDownloadFlags :
       StartImageTool(t, SchemaArgs(t, Args(f, d)))
  \/ \E r \in ImageResponses : ImagesReturn(r)
  \/ ImagesThrow
  \/ ImageBinWritten
  \/ ImageMetaWritten
  \/ ImageWriteFailed
  \/ \E k \in ImageKinds : NormalizeReturns(k)
  \/ \E k \in ImageKinds : NormalizeThrows(k)
  \/ \E op \in Operations : RemoteCallReturns(op)
  \/ RemoteCallThrows
  \/ TimerFires
  \/ \E op \in Operations : StatusReturns(op)
  \/ StatusThrows
  \/ \E i \in 1..2, b \in Bytes : TaskFetched(i, b)
  \/ \E i \in 1..2 : TaskFetchFailed(i, "Failed to fetch video")
  \/ \E i \in 1..2 : TaskBinWritten(i)
  \/ \E i \in 1..2 : TaskMetaWritten(i)
  \/ \E i \in 1..2 : TaskWriteFailed(i)
  \/ ResultRead
  \/ ResultReadThrows

\* a step of a tool call in flight: the remote, the timer, the downloads and
\* the file system answer, and the continuation that waits for them runs
InFlight == pc \notin { "idle", "done" } /\ NextFair

\* one tool call whose awaited operations all answer in the end; the remote
\* reports done = true after at most MaxPolls re-fetches
SpecFair == Init /\ [][NextFair]_vars /\ WF_vars(InFlight)

\* the call ended with an error of the remote call or of a status fetch
RemoteFailed == outcome.st = "error" /\ outcome.msg = "RemoteCallFailed"

\* the loop is left only with a done handle or with a throw of the remote:
\* there is no timeout and no limit on the waits
LoopExits ==
  pc \in Polling /\ pc' \notin Polling => DoneObserved' \/ RemoteFailed'

\* while polling the call has neither returned nor failed
StillPending ==
  pc \in Polling => outcome = Pending /\ envelope = NoEnvelope

----------------------------------------------------------------------------
(* C24 *)

\* C24: the tasks of a fan-out run concurrently and the call returns, with
\* success or with failure, only after all of them have finished: once the
\* call has returned no task is in flight and nothing more is written to
\* the store.
C24_FanOutJoin ==
  /\ [](pc = "done" => AllSettled(tasks))
  /\ [][pc = "done" => files' = files]_vars

----------------------------------------------------------------------------
(* Saves and reads of the store, interleaved at their await points *)

\* a getVideo call between its awaits: `at` is the await it stands at
NoReader ==
  [op |-> "none", at |-> "idle", id |-> << >>, metadata |-> None, ok |-> FALSE]

\* getVideo: getMetadata answered; the call returns, throws, or goes on to
\* save the fallback path or to read the binary
GetVideoStarts(id, includeFullData) ==
  /\ lastRead.at = "idle"
  /\ LET found == GetMetadata(files, id)
         reader == [NoReader EXCEPT !.op = "getVideo", !.id = id]
     IN lastRead' =
          IF ~IsSome(found) THEN reader
          ELSE IF ~includeFullData
            THEN [reader EXCEPT !.ok = TRUE, !.metadata = found]
          ELSE IF NonEmpty(found[1].filepath)
            THEN [reader EXCEPT !.at = "readFile", !.metadata = found]
          ELSE [reader EXCEPT
                  !.at = "saveMetadata",
                  !.metadata = Some([found[1] EXCEPT
                                       !.filepath = ReadPath(id, found[1])])]
  /\ UNCHANGED << files, nextUuid, tool, args, options, img, pc, polls, tasks,
                  outcome, envelope, trace, config, imageInput, logger,
                  transports >>

\* getVideo: this.saveMetadata(id, metadata) of the fallback branch is done
GetVideoSavesMetadata ==
  /\ lastRead.at = "saveMetadata"
  /\ files' = WriteFile(files, MetadataPath(lastRead.id),
                        JsonFile(lastRead.metadata[1]))
  /\ lastRead' = [lastRead EXCEPT !.at = "readFile"]
  /\ UNCHANGED << nextUuid, tool, args, options, img, pc, polls, tasks,
                  outcome, envelope, trace, config, imageInput, logger,
                  transports >>

\* getVideo: fs.readFile(filePath) answered or threw
GetVideoReadsFile ==
  /\ lastRead.at = "readFile"
  /\ lastRead' = [lastRead EXCEPT
                    !.at = "idle",
                    !.ok = Exists(files, lastRead.metadata[1].filepath)]
  /\ UNCHANGED << files, nextUuid, tool, args, options, img, pc, polls, tasks,
                  outcome, envelope, trace, config, imageInput, logger,
                  transports >>

\* listVideos between two steps of the others
ListVideosRuns ==
  /\ lastRead.at = "idle"
  /\ lastRead' = [NoReader EXCEPT !.op = "listVideos",
                                  !.ok = ~ListVideos(files, FALSE).thrown]
  /\ UNCHANGED << files, nextUuid, tool, args, options, img, pc, polls, tasks,
                  outcome, envelope, trace, config, imageInput, logger,
                  transports >>

\* the fan-out of one video call has started; a generateImage call and the
\* reads run beside it (pc follows the generateImage call)
InitInterleave ==
  /\ files = NoFiles
  /\ \E n \in 1..2 : \E l \in [1..n -> Descriptors], a \in BOOLEAN :
       /\ tasks = [i \in 1..n |-> StartTask(l[i], i - 1, UriCount(l, i), a)]
       /\ nextUuid = UriCount(l, n)
  /\ tool = "none"
  /\ args = Args(Undefined, Undefined)
  /\ options = NoOptions
  /\ img = NoImage
  /\ pc = "idle"
  /\ polls = 0
  /\ outcome = Pending
  /\ envelope = NoEnvelope
  /\ trace = NewTrace
  /\ lastRead = NoReader
  /\ config = NoConfig
  /\ imageInput = NoInput
  /\ logger = NoLogger
  /\ transports = NoTransports

NextInterleave ==
  \/ \E i \in DOMAIN tasks, b \in Bytes : TaskFetched(i, b)
  \/ \E i \in DOMAIN tasks : TaskFetchFailed(i, "Failed to fetch video")
  \/ \E i \in DOMAIN tasks : TaskBinWritten(i)
  \/ \E i \in DOMAIN tasks : TaskMetaWritten(i)
  \/ \E i \in DOMAIN tasks : TaskWriteFailed(i)
  \/ StartImageTool("generateImage",
                    SchemaArgs("generateImage", Args(Undefined, Undefined)))
  \/ \E r \in ImageResponses : ImagesReturn(r)
  \/ ImageBinWritten
  \/ ImageMetaWritten
  \/ ImageWriteFailed
  \/ \E u \in 1..2, i \in 0..1, f \in BOOLEAN :
       GetVideoStarts(VideoId(u, i), f)
  \/ GetVideoSavesMetadata
  \/ GetVideoReadsFile
  \/ ListVideosRuns

SpecInterleave == InitInterleave /\ [][NextInterleave]_vars

----------------------------------------------------------------------------
(* C25 *)

\* the sidecars of both stores, as parsed
Sidecars(fs) == { p \in DOMAIN fs : fs[p].kind = "json" }

\* sidecar p names a binary and a positive size
NamesBinary(fs, p) ==
  NonEmpty(fs[p].obj[1].filepath) /\ fs[p].obj[1].size > 0

\* the binary metadata m names is in fs, with the length m gives
HasBinary(fs, m) ==
  /\ Exists(fs, m.filepath)
  /\ fs[m.filepath].kind = "bin"
  /\ Len(fs[m.filepath].bytes) = m.size

Consistent(fs) ==
  \A p \in Sidecars(fs) : NamesBinary(fs, p) => HasBinary(fs, fs[p].obj[1])

\* a sidecar that appears or changes names a binary that was there before
BinaryFirst ==
  \A p \in Sidecars(files') :
    (~Exists(files, p) \/ files[p] # files'[p]) /\ NamesBinary(files', p)
      => HasBinary(files, files'[p].obj[1])

\* saves of both stores are done, with their sidecars, and a read went by
C25_Witness ==
  /\ \E p \in Sidecars(files) : p[1] = StorageDir /\ NamesBinary(files, p)
  /\ \E p \in Sidecars(files) : p[1] = ImageStorageDir /\ NamesBinary(files, p)
  /\ lastRead.op = "getVideo"
  /\ lastRead.ok

\* C25: with no deletion from outside, under every interleaving of the steps
\* of saves, getVideo and listVideos, each sidecar with a non-empty filepath
\* and a size above 0 describes a binary that exists and has that length;
\* a save has written the whole binary before its sidecar can be seen.
C25_SidecarMatchesBinary ==
  /\ []Consistent(files)
  /\ [][BinaryFirst]_vars

----------------------------------------------------------------------------
(* C26 *)

\* the step was a read or a listing: it left its result in lastRead
ReadStep == lastRead'.op # "none"

\* C26: reads are read-only on the store: getVideo with either flag,
\* whether it succeeds or fails, getMetadata, listVideos, and the listing
\* tools and resource readers over them never create, change or delete a
\* file.
C26_ReadsAreReadOnly == [][ReadStep => files' = files]_vars

----------------------------------------------------------------------------
(* C27 *)

\* the credential is part of a stored or returned video URL
HoldsKey(videoUrl) ==
  IsSome(videoUrl) /\ \E i \in DOMAIN videoUrl[1] : videoUrl[1][i] = ApiKey

SidecarHoldsKey ==
  \E p \in Sidecars(files) :
    p[1] = StorageDir /\ HoldsKey(files[p].obj[1].videoUrl)

\* the text item of a successful video tool result carries the credential
ToolResultHoldsKey ==
  /\ tool \notin { "none", "generateImage" }
  /\ envelope.st = "returned"
  /\ ~envelope.isError
  /\ LET body == envelope.content[Len(envelope.content)].body
     IN HoldsKey(body.videoUrl) \/ HoldsKey(body.metadata.videoUrl)

ListingHoldsKey ==
  /\ lastRead.op = "listGeneratedVideos"
  /\ \E v \in lastRead.list : HoldsKey(v.videoUrl)

\* C27: GOOGLE_API_KEY goes to the remote service only: it is in no sidecar
\* of the store, in no result of a generating tool or of listGeneratedVideos,
\* and in no resource read, with autoDownload on and with autoDownload off.
C27_KeyConfined ==
  ~SidecarHoldsKey /\ ~ToolResultHoldsKey /\ ~ListingHoldsKey

----------------------------------------------------------------------------
(* The SSE endpoint of main(): GET /sse, its close, POST /messages *)

\* how many SSE connections a run opens
MaxSessions == 3

\* transport.sessionId of the n-th connection: a fresh identifier
SessionId(n) == ToString(n)

\* names every JavaScript object inherits from Object.prototype
ObjectPrototypeKeys == { "constructor", "__proto__" }

\* the sessionId a POST can carry: one that was or will be handed out, a
\* name of Object.prototype, or none at all (req.query.sessionId undefined)
RequestedIds ==
  { SessionId(n) : n \in 1..MaxSessions } \cup ObjectPrototypeKeys
    \cup { "undefined" }

\* const transports = {}; no connection yet
Listening ==
  [stage |-> "listening", registry |-> {}, open |-> {}, sessions |-> 0,
   last |-> [request |-> "none", sessionId |-> "", status |-> ""]]

\* transports[sessionId] on the plain object: the registered transport, a
\* member of Object.prototype, or undefined
Lookup(registry, sessionId) ==
  IF sessionId \in registry THEN "transport"
  ELSE IF sessionId \in ObjectPrototypeKeys THEN "inherited"
  ELSE "undefined"

\* every step of the endpoint leaves the rest of the model alone
EndpointOnly ==
  UNCHANGED << files, nextUuid, tool, args, options, img, pc, polls, tasks,
               outcome, envelope, trace, lastRead, config, imageInput,
               logger >>

\* app.get('/sse'): a transport is made and put into the registry
SseOpens ==
  /\ transports.stage = "listening"
  /\ transports.sessions < MaxSessions
  /\ LET sessionId == SessionId(transports.sessions + 1) IN
       transports' =
         [transports EXCEPT
            !.registry = @ \cup { sessionId },
            !.open = @ \cup { sessionId },
            !.sessions = @ + 1,
            !.last = [request |-> "GET /sse", sessionId |-> sessionId,
                      status |-> "200"]]
  /\ EndpointOnly

\* res.on('close'): the entry of this connection is deleted
SseCloses(sessionId) ==
  /\ transports.stage = "listening"
  /\ sessionId \in transports.open
  /\ transports' =
       [transports EXCEPT
          !.registry = @ \ { sessionId },
          !.open = @ \ { sessionId },
          !.last = [request |-> "close", sessionId |-> sessionId,
                    status |-> ""]]
  /\ EndpointOnly

\* app.post('/messages'): the message goes to the transport found under
\* sessionId; nothing found is a 404; a found value that is no transport
\* has no handlePostMessage, the call throws and express answers 500
PostMessage(sessionId) ==
  /\ transports.stage = "listening"
  /\ LET transport == Lookup(transports.registry, sessionId) IN
       transports' =
         [transports EXCEPT
            !.last = [request |-> "POST /messages", sessionId |-> sessionId,
                      status |-> IF transport = "transport" THEN "dispatched"
                                 ELSE IF transport = "undefined" THEN "404"
                                 ELSE "500"]]
  /\ EndpointOnly

InitSse ==
  /\ files = NoFiles
  /\ nextUuid = 0
  /\ tool = "none"
  /\ args = Args(Undefined, Undefined)
  /\ options = NoOptions
  /\ img = NoImage
  /\ pc = "sse"
  /\ polls = 0
  /\ tasks = NoTasks
  /\ outcome = Pending
  /\ envelope = NoEnvelope
  /\ trace = NewTrace
  /\ lastRead = NoRead
  /\ config = NoConfig
  /\ imageInput = NoInput
  /\ logger = NoLogger
  /\ transports = Listening

NextSse ==
  \/ SseOpens
  \/ \E sessionId \in RequestedIds : SseCloses(sessionId)
  \/ \E sessionId \in RequestedIds : PostMessage(sessionId)

SpecSse == InitSse /\ [][NextSse]_vars

----------------------------------------------------------------------------
(* C28 *)

\* the registry holds the sessions that were opened and are not yet closed
RegistryIsOpen == transports.registry = transports.open

\* the last POST was dispatched when its sessionId is registered, and was
\* answered 404 otherwise
PostOutcome ==
  transports.last.request = "POST /messages" =>
    IF transports.last.sessionId \in transports.registry
      THEN transports.last.status = "dispatched"
      ELSE transports.last.status = "404"

\* an entry comes and goes only with the open and the close of its own
\* connection
OwnEntryOnly ==
  \A sessionId \in RequestedIds :
    (sessionId \in transports.registry) # (sessionId \in transports'.registry)
      => /\ transports'.last.sessionId = sessionId
         /\ transports'.last.request \in { "GET /sse", "close" }

\* C28: a session id is in the registry from the opening of its SSE
\* connection until its close; a POST to /messages is dispatched exactly
\* when its sessionId is registered and is answered 404 otherwise; opening
\* or closing one connection leaves the entries of the others alone.
C28_SessionRegistry ==
  /\ []RegistryIsOpen
  /\ []PostOutcome
  /\ [][OwnEntryOnly]_vars

----------------------------------------------------------------------------
(* C29 *)

\* requests for a video that differ in enhancePrompt, in every form the
\* parameter arrives in
EnhanceRequests ==
  [prompt : { Some(1) }, videoPrompt : { None }, numberOfImages : { None },
   aspectRatio : Optional({ "9:16" }),
   personGeneration : { None },
   numberOfVideos : { None },
   durationSeconds : Optional({ MaxDurationSeconds }),
   enhancePrompt : RawInputs]

InitEnhance ==
  /\ files = NoFiles
  /\ nextUuid = 0
  /\ tool = "none"
  /\ args = Args(Undefined, Undefined)
  /\ options = NoOptions
  /\ img = NoImage
  /\ pc = "config"
  /\ polls = 0
  /\ tasks = NoTasks
  /\ outcome = Pending
  /\ envelope = NoEnvelope
  /\ trace = NewTrace
  /\ lastRead = NoRead
  /\ \E t \in GeneratingTools, a \in EnhanceRequests : config = Received(t, a)
  /\ imageInput = NoInput
  /\ logger = NoLogger
  /\ transports = NoTransports

\* the path of a request from the server to the store, for every form of
\* enhancePrompt
SpecEnhance == InitEnhance /\ [][NextConfig]_vars

\* the arguments the tool function gets of the request: parsed by the schema,
\* or as given when the tool is called directly
ToolArgs(t, given, validated) ==
  IF validated THEN ParsedArgs(t, given) ELSE given

\* what the gateway sends and what is recorded for the request `given`
PayloadOf(t, given, validated) ==
  GenerateConfig(Some(VideoConfig(ToolArgs(t, given, validated))))

RecordOf(t, given, validated) ==
  SavedConfig(Some(VideoConfig(ToolArgs(t, given, validated))))

\* the request of this run, with another enhancePrompt
WithEnhance(e) == [config.given EXCEPT !.enhancePrompt = e]

----------------------------------------------------------------------------
(* C30 *)

\* what the image model can answer to a request for up to MaxNumberOfImages
\* images: no list, an empty list, an image without bytes, or one to
\* MaxNumberOfImages images
ManyImageResponses ==
  { None, Some(<< >>), Some(<< None >>) }
    \cup { Some([i \in DOMAIN l |-> Some(Base64(l[i]))]) :
             l \in UNION { [1..n -> ImageBytes] : n \in 1..MaxNumberOfImages } }

\* one call of an image tool, up to the end of its image stage, beside saves
\* into the video store and the two listings
NextImageTool ==
  \/ \E t \in ImageTools, f \in IncludeFullDataFlags :
       StartImageTool(t, SchemaArgs(t, Args(f, Undefined)))
  \/ \E r \in ManyImageResponses : ImagesReturn(r)
  \/ ImagesThrow
  \/ ImageBinWritten
  \/ ImageMetaWritten
  \/ ImageWriteFailed
  \/ \E b \in Bytes : SaveVideoBuffer(b, "none")
  \/ \E w \in BOOLEAN : ListGeneratedVideos(w)
  \/ \E w \in BOOLEAN : ListGeneratedImages(w)

SpecImageTool == Init /\ [][NextImageTool]_vars

\* the files of the images subdirectory
ImageFiles(fs) == { p \in DOMAIN fs : p[1] = ImageStorageDir }

\* the image stage of the call has succeeded
ImageStageDone ==
  \/ tool = "generateImage" /\ pc = "done" /\ ~envelope.isError
  \/ tool = "generateVideoFromGeneratedImage" /\ pc = "normalizing"

\* the first image of the answer, as bytes
FirstImage == Base64Decode(trace.images[1][1][1])

\* one binary and one sidecar, of the first image
OneImagePersisted ==
  /\ ImageFiles(files) = { ImagePath(img.id, ".png"), ImagePath(img.id, ".json") }
  /\ files[ImagePath(img.id, ".png")] = BinFile(FirstImage)
  /\ files[ImagePath(img.id, ".json")]
       = JsonFile(ImageMetadata(img.id, "image/png", FirstImage))

\* the listings keep to their own store
ListingsApart ==
  /\ \A v \in ListVideos(files, FALSE).videos :
       MetadataPath(v.id) \in DOMAIN files /\ v.filepath[1] = StorageDir
  /\ \A m \in ListImages(files) :
       ImagePath(m.id, ".json") \in DOMAIN files
         /\ m.filepath[1] = ImageStorageDir

\* a step that writes into the images subdirectory leaves listVideos as it was
VideoListingKept ==
  ImageFiles(files') # ImageFiles(files) =>
    ListVideos(files', FALSE) = ListVideos(files, FALSE)

\* C30: a successful generateImage call, and the image stage of
\* generateVideoFromGeneratedImage, persists one image artifact, a binary
\* and a sidecar in the images subdirectory, of the first generated image,
\* however many images the remote returned; image saves leave the listing
\* of the video store as it was, and neither listing holds artifacts of the
\* other store.
C30_SingleImagePersisted ==
  /\ [](ImageStageDone => OneImagePersisted)
  /\ []ListingsApart
  /\ [][VideoListingKept]_vars

\* a call that got three images and has saved one, beside a stored video
C30_Witness ==
  /\ ImageStageDone
  /\ Len(trace.images[1]) = 3
  /\ trace.images[1][1] # trace.images[1][3]
  /\ ListVideos(files, FALSE).videos # {}
  /\ ListImages(files) # {}

====
